---- MODULE Spec2Model ----
(***************************************************************************)
(* TradeButler backend: the selective AI dispatch pipeline, the AI result  *)
(* cache, the company matcher and the following store, modelled from       *)
(*   backend/app/workers/tasks.py                                          *)
(*   backend/app/services/selective_ai_pipeline.py                         *)
(*   backend/app/services/company_matcher.py                               *)
(*   backend/app/services/company_extractor.py                             *)
(*   backend/app/services/ingest/rss.py                                    *)
(*   backend/app/services/following_cache.py                               *)
(*   backend/app/api/v1/companies.py, companies_optimized.py, ai.py        *)
(*                                                                         *)
(* Database and ORM behaviour the code relies on                           *)
(*  - repo/db.py:6 makes SessionLocal a scoped_session: SessionLocal()     *)
(*    called twice on one thread yields the same Session.  The pipeline    *)
(*    calls summarize_task(content_id) as a plain function, so the task    *)
(*    commits and then closes the pipeline's own session.                  *)
(*  - Session.commit() and Session.rollback() expire every loaded object;  *)
(*    Session.close() detaches them.  Reading an attribute of an expired,  *)
(*    detached object raises DetachedInstanceError.                        *)
(*  - Content.tags is a plain JSONB column (models/content.py:20), so the  *)
(*    ORM sees an assignment to content.tags but not an in-place           *)
(*    content.tags.append(...): a list that is only appended to is not     *)
(*    written by commit().                                                 *)
(*  - ai_cache carries a unique constraint on (content_hash,               *)
(*    model_version) (models/content.py:49); content.hash is unique, so a  *)
(*    content id stands for its hash.  user_followings carries no unique   *)
(*    constraint (models/company.py:81-86).                                *)
(***************************************************************************)
EXTENDS Integers, Sequences, FiniteSets, TLC

\* ---------------------------------------------------------------- bounds
\* handlers (requests, tasks, ingestions) started in one behaviour
MaxOps == 3
\* tags one summarize_task commit may have to cut off to respect MaxTags
MaxDropped == 1
\* the largest limit a batch run is called with
MaxLimit == 3

Contents == {"x"}
Workers == {"w1", "w2"}
Companies == {"A", "B"}
Users == {"u1"}
Reqs == {"r1", "r2"}
Ingesters == {"i1", "i2"}
Items == {"p1", "p2", "p3"}
\* a company id with no row in the companies table
UnknownCompany == "Z"
NoId == "-"

\* ------------------------------------------------------ program constants
\* tasks.py:292  improved_tags = list(set(improved_tags))[:15]
MaxTags == 15

VARIABLES
    content,          \* content table: id -> row (exists, tags, summary_bullets, insight, lang, title_kw)
    mentions,         \* company_mentions table: content id -> set of company ids
    ai_cache,         \* ai_cache table: content hash -> cached AI result
    queue,            \* summarize_task messages waiting in the Celery queue, per content id
    wk,               \* per worker: the handler it runs and that handler's locals
    lastResult,       \* the value the handler that finished last returned, and its worker
    opsStarted,       \* handlers started so far
    user_followings,  \* user_followings table: set of rows
    nextFollowingId,  \* the primary key the next user_followings row gets
    redis_following,  \* Redis sets user_following:{user}, as (user, company) pairs
    redis_info,       \* Redis keys user_following_info:{user}:{company} that exist
    fw,               \* per API request slot: the follow handler it runs and its locals
    lastFollow,       \* the response the follow handler that finished last gave
    followLog,        \* history: the follow calls per (user, company) since the last remove
    matchResult,      \* the last should_auto_summarize call: its arguments and what it returned
    providerCalls,    \* history: client.chat.completions.create calls per content hash
    resolved,         \* history: the AI results summarize_task executions obtained, per content hash
    requested,        \* history: content ids for which a summary was explicitly requested
    pncLog,           \* history: the last process_new_content call and the one right before it
    ing,              \* per concurrent ingest_rss call: its position and the entry it saves
    ingResult,        \* what the ingest_rss call that finished last returned
    items,            \* content rows a batch run works on: tagged pending_summary?, matched by the user?
    batch,            \* the running process_batch_content call: its locals and its session
    batchResult,      \* what the process_batch_content call that finished last returned
    sync,             \* the running sync_following_cache request: its position and its snapshot
    lastRead,         \* what the last read of the mirror returned, and what it was taken against
    catalog,          \* company_mentions of the contents get_priority_content ranks: content id -> companies
    priorityResult,   \* the last get_priority_content call: its arguments, the rows fetched, the list returned
    library,          \* the content rows ContentRepo reads: content id -> tags and title, as texts
    repoResult,       \* the last ContentRepo call: its arguments and what it returned
    orderRuns         \* one content item in two runs that call process_new_content for two users in opposite orders

contentVars == <<content, mentions, ai_cache, queue, wk, lastResult, providerCalls,
                 resolved, requested, pncLog>>
followVars == <<user_followings, nextFollowingId, redis_following, redis_info, fw,
                lastFollow, followLog>>
matcherVars == <<matchResult>>
ingestVars == <<ing, ingResult>>
batchVars == <<items, batch, batchResult>>
syncVars == <<sync, lastRead>>
priorityVars == <<catalog, priorityResult>>
repoVars == <<library, repoResult>>
orderVars == <<orderRuns>>
vars == <<contentVars, opsStarted, followVars, matcherVars, ingestVars, batchVars,
          syncVars, priorityVars, repoVars, orderVars>>

\* ------------------------------------------------------------------ tags
AITagNames == <<"t1", "t2", "t3", "t4", "t5", "t6", "t7", "t8">>

\* every tag the modelled code can produce, in one fixed order
TagOrder ==
    <<"rss", "src", "pending_summary", "auto_summarized", "following_company",
      "on_demand_available", "on_demand_summarized", "company_extracted",
      "ai_summarized", "processed", "korean", "english",
      "ai", "technology", "cryptocurrency",
      "fallback", "api_error", "ai_processed", "json_error">> \o AITagNames

ProcessingTags ==
    {"pending_summary", "auto_summarized", "on_demand_available", "on_demand_summarized"}

SeqToSet(s) == {s[i] : i \in DOMAIN s}

\* list(set(...)): the elements of S, once each (Python fixes no order; the
\* model lists them in TagOrder, and no modelled code depends on the order)
SetToList(S) == SelectSeq(TagOrder, LAMBDA t : t \in S)

\* list.remove(x): drops the first occurrence of x
RemoveFirst(s, x) ==
    IF x \notin SeqToSet(s) THEN s
    ELSE LET i == CHOOSE j \in DOMAIN s : s[j] = x /\ \A k \in 1..(j-1) : s[k] # x
         IN SubSeq(s, 1, i-1) \o SubSeq(s, i+1, Len(s))

\* [tag for tag in tags if tag != x]
Without(s, x) == SelectSeq(s, LAMBDA t : t # x)

\* the subsets of SeqToSet(s) with k elements (s has no duplicates)
RECURSIVE KSubsets(_, _)
KSubsets(s, k) ==
    IF k = 0 THEN {{}}
    ELSE IF Len(s) < k THEN {}
    ELSE {T \cup {Head(s)} : T \in KSubsets(Tail(s), k - 1)} \cup KSubsets(Tail(s), k)

\* list(set(xs)) without the slice: every element is kept
Untruncated(S) == {S}

\* list(set(xs))[:MaxTags]: the order of a Python set of strings is not
\* fixed, so the slice keeps any MaxTags of the elements
Truncations(S) ==
    IF Cardinality(S) <= MaxTags THEN {S}
    ELSE {S \ D : D \in KSubsets(SetToList(S), Cardinality(S) - MaxTags)}

\* ------------------------------------------------------------ row shapes
NoContent ==
    [exists |-> FALSE, tags |-> <<>>, summary_bullets |-> "none", insight |-> "none",
     lang |-> "en", title_kw |-> {}]

NoResult == [status |-> "none", summary_bullets |-> "none", tags |-> <<>>, insight |-> "none"]

\* Python truthiness of a stored summary field (None, [] and "" are falsy)
Truthy(v) == v \notin {"none", "empty"}

TitleKeywordTags == {"ai", "technology", "cryptocurrency"}

\* what a call of call_openai_summary meets: the provider answers with
\* well-formed JSON (two different answers, the second with the full 8
\* tags), answers with text that is not JSON, raises (transport error,
\* timeout), or the module has no client because no API key is configured
ProviderResponses == {"ok1", "ok2", "malformed", "raises", "no_client"}

\* the provider is reached unless the client is missing (tasks.py:119-120)
InvokesProvider(resp) == resp # "no_client"

\* a call_openai_summary without its except branches: a failure leaves the
\* caller without a result
call_openai_summary_unguarded(resp) ==
    CASE resp = "ok1" ->
           [status |-> "success", summary_bullets |-> "ai1", tags |-> <<"t1">>,
            insight |-> "ai1"]
      [] resp = "ok2" ->
           [status |-> "success", summary_bullets |-> "ai2", tags |-> AITagNames,
            insight |-> "ai2"]
      [] OTHER -> NoResult

\* call_openai_summary: the parsed answer, the JSON fallback for a
\* json.JSONDecodeError, the API-error fallback for any other exception
call_openai_summary(resp) ==
    CASE resp = "ok1" ->
           [status |-> "success", summary_bullets |-> "ai1", tags |-> <<"t1">>,
            insight |-> "ai1"]
      [] resp = "ok2" ->
           [status |-> "success", summary_bullets |-> "ai2", tags |-> AITagNames,
            insight |-> "ai2"]
      [] resp = "malformed" ->
           [status |-> "json_error", summary_bullets |-> "json_fallback",
            tags |-> <<"ai_processed", "json_error">>, insight |-> "json_fallback"]
      [] OTHER ->
           [status |-> "api_error", summary_bullets |-> "api_fallback",
            tags |-> <<"fallback", "api_error">>, insight |-> "api_fallback"]

\* everything call_openai_summary can return
ProviderOutcomes == {call_openai_summary(resp) : resp \in ProviderResponses}

\* get_cached_result: the cached row as a result with status "cached", or none
get_cached_result(c) ==
    IF ai_cache[c].status = "none" THEN NoResult
    ELSE [ai_cache[c] EXCEPT !.status = "cached"]

\* ------------------------------------------------------- company matcher
\* a matcher that forgets the auto_summarize filter of the query
get_following_companies_unfiltered(u) ==
    {r.company_id : r \in {f \in user_followings : f.user_id = u}}

\* CompanyMatcher.get_following_companies: the user's rows with
\* auto_summarize == True
get_following_companies(u) ==
    {r.company_id : r \in {f \in user_followings : f.user_id = u /\ f.auto_summarize}}

get_content_companies(c) == mentions[c]

\* a ratio that divides by the number of content companies without looking
\* whether there are any
match_ratio_unguarded(matched, content_companies) ==
    [num |-> Cardinality(matched), den |-> Cardinality(content_companies)]

\* company_matcher.py:123: len(matched) / len(content_companies) if
\* content_companies else 0, kept as the fraction num/den (0 is 0/1)
match_ratio(matched, content_companies) ==
    IF content_companies # {}
    THEN [num |-> Cardinality(matched), den |-> Cardinality(content_companies)]
    ELSE [num |-> 0, den |-> 1]

\* a reason text: which f-string it is and the numbers put into it
Reason(text, args) == [text |-> text, args |-> args]

\* a reason that has one text for every content without a match
get_decision_reason_merged(should_summarize, matched, content_companies) ==
    IF should_summarize
    THEN Reason("match", <<Cardinality(matched), Cardinality(content_companies)>>)
    ELSE Reason("not_followed", <<Cardinality(content_companies)>>)

\* _get_decision_reason: "팔로잉 기업 {n}개가 언급됨 (총 {m}개 기업 중)" for a
\* match, "언급된 기업이 없음" for a content without companies, "팔로잉
\* 기업이 언급되지 않음 (총 {m}개 기업 중)" otherwise
get_decision_reason(should_summarize, matched, content_companies) ==
    IF should_summarize
    THEN Reason("match", <<Cardinality(matched), Cardinality(content_companies)>>)
    ELSE IF content_companies = {} THEN Reason("no_companies", <<>>)
    ELSE Reason("not_followed", <<Cardinality(content_companies)>>)

\* should_auto_summarize, the try branch, without the per-company priorities
MatchOf(c, u) ==
    LET following_companies == get_following_companies(u)
        content_companies == get_content_companies(c)
        matched == following_companies \cap content_companies
        should_summarize == Cardinality(matched) > 0
    IN [should_summarize |-> should_summarize,
        matched_companies |-> matched,
        total_following |-> Cardinality(following_companies),
        total_content_companies |-> Cardinality(content_companies),
        match_ratio |-> match_ratio(matched, content_companies),
        reason |-> get_decision_reason(should_summarize, matched, content_companies)]

\* should_auto_summarize, the except branch: the reason carries the error
NoMatchOnError ==
    [should_summarize |-> FALSE, matched_companies |-> {}, total_following |-> 0,
     total_content_companies |-> 0, match_ratio |-> [num |-> 0, den |-> 1],
     reason |-> Reason("error", <<>>)]

\* a matcher whose queries' exceptions are not turned into a no-match result
should_auto_summarize_unguarded(c, u, storeFails) == MatchOf(c, u)

\* should_auto_summarize: the decision, the matched set, the counts, the
\* ratio and the reason; storeFails is "a query raised", which the except
\* branch turns into a no-match result
should_auto_summarize(c, u, storeFails) ==
    IF storeFails THEN NoMatchOnError ELSE MatchOf(c, u)

\* _get_company_priority: .first() of the user's rows for the company, read
\* with no auto_summarize filter and no ORDER BY, so any of them; 0 when
\* there is none.  The set of values the lookup can return.
get_company_priority(u, co) ==
    LET rows == {f \in user_followings : f.user_id = u /\ f.company_id = co}
    IN IF rows = {} THEN {0} ELSE {f.priority : f \in rows}

\* company_matcher.py:90-104: the matched_company_info lists the call can
\* build, as company -> priority (every matched company has its companies
\* row, by the foreign key of user_followings and company_mentions)
MatchedCompanyInfos(u, matched) ==
    {info \in [matched -> 0..5] : \A co \in matched : info[co] \in get_company_priority(u, co)}

\* company_matcher.py:110-114: max(..., default=0) over the info list
max_priority(info) ==
    IF DOMAIN info = {} THEN 0
    ELSE CHOOSE p \in {info[co] : co \in DOMAIN info} : \A co \in DOMAIN info : info[co] <= p

\* everything should_auto_summarize can return for (c, u)
MatchResults(c, u, storeFails) ==
    LET base == should_auto_summarize(c, u, storeFails)
    IN {base @@ [matched_company_info |-> info, max_priority |-> max_priority(info)] :
           info \in MatchedCompanyInfos(u, base.matched_companies)}

\* ---------------------------------------------------------------- state
\* the match result a worker holds outside process_new_content
NoMatch == NoMatchOnError @@ [matched_company_info |-> <<>>, max_priority |-> 0]

Idle ==
    [pc |-> "idle", op |-> "none", c |-> NoId, u |-> NoId, snap |-> NoContent,
     ai |-> NoResult, resp |-> "none", task |-> "none", second |-> FALSE,
     storeFails |-> FALSE, match_result |-> NoMatch]

NoReturn ==
    [w |-> NoId, op |-> "none", c |-> NoId, status |-> "none", task |-> "none",
     summary_bullets |-> "none", insight |-> "none"]

\* a handler's return value; summary_bullets and insight are filled in by
\* the handlers that return them
Return(w, op, c, status, task) ==
    [w |-> w, op |-> op, c |-> c, status |-> status, task |-> task,
     summary_bullets |-> "none", insight |-> "none"]

Row(id, u, co, prio, auto) ==
    [id |-> id, user_id |-> u, company_id |-> co, priority |-> prio, auto_summarize |-> auto]

\* following tables the pipeline may run against
FollowConfigs ==
    { {},
      {Row(1, "u1", "A", 3, TRUE)},
      {Row(1, "u1", "A", 3, FALSE)} }

\* the row ingest_rss stores for a new item (create_content_data)
NewContent(lang, kw) ==
    [exists |-> TRUE, tags |-> <<"rss", "src", "pending_summary">>,
     summary_bullets |-> "temp", insight |-> "none", lang |-> lang, title_kw |-> kw]

\* titles and texts of the ingested items: language and title keywords
Articles == {[lang |-> "en", kw |-> {}], [lang |-> "ko", kw |-> TitleKeywordTags]}

\* history records of process_new_content calls
NoCall == [set |-> FALSE, c |-> NoId, u |-> NoId, tags |-> {}, calls |-> 0, storeOk |-> FALSE]
NoPair == [set |-> FALSE, tags1 |-> {}, tags2 |-> {}, calls1 |-> 0, calls2 |-> 0]
NoLog == [first |-> NoCall, pair |-> NoPair, clean |-> FALSE]

\* the results an execution of summarize_task can hold, without the status
Payload(res) ==
    [summary_bullets |-> res.summary_bullets, tags |-> res.tags, insight |-> res.insight]

\* The database at the start: empty, or holding an item as ingest_rss and
\* the extraction task leave it (stored, its summarize task queued, its
\* mentions extracted)
InitContent ==
    /\ \E ingested \in SUBSET Contents :
          /\ content \in {f \in [Contents -> {NoContent} \cup {NewContent(a.lang, a.kw) : a \in Articles}] :
                             \A c \in Contents : f[c].exists <=> c \in ingested}
          /\ mentions \in {f \in [Contents -> SUBSET Companies] :
                             \A c \in Contents : c \notin ingested => f[c] = {}}
          /\ queue = [c \in Contents |-> IF c \in ingested THEN 1 ELSE 0]
    /\ ai_cache = [c \in Contents |-> NoResult]
    /\ wk = [w \in Workers |-> Idle]
    /\ lastResult = NoReturn
    /\ providerCalls = [c \in Contents |-> 0]
    /\ resolved = [c \in Contents |-> {}]
    /\ requested = {}
    /\ pncLog = NoLog

Pairs == Users \X Companies

FwIdle == [pc |-> "idle", op |-> "none", u |-> NoId, co |-> NoId, auto |-> FALSE, id |-> 0]

NoResponse == [r |-> NoId, op |-> "none", u |-> NoId, co |-> NoId, status |-> "none"]

NoFollowLog == [fresh |-> FALSE, calls |-> <<>>, rows |-> 0, cached |-> FALSE]

InitFollowing ==
    /\ user_followings \in FollowConfigs
    /\ nextFollowingId = 2
    /\ redis_following = {}
    /\ redis_info = {}
    /\ fw = [r \in Reqs |-> FwIdle]
    /\ lastFollow = NoResponse
    /\ followLog = [p \in Pairs |-> NoFollowLog]

NoMatchResult ==
    [set |-> FALSE, c |-> NoId, u |-> NoId, storeFails |-> FALSE,
     result |-> NoMatch]

\* no stepwise ingestion is running
IngIdle == [pc |-> "idle", c |-> NoId, lang |-> "en", kw |-> {}]

NoIngestResult ==
    [i |-> NoId, returned |-> "nothing", saved |-> 0, duplicates |-> 0, queued_tasks |-> 0]

InitIngest ==
    /\ ing = [i \in Ingesters |-> IngIdle]
    /\ ingResult = NoIngestResult

\* no batch is running; the session of the request is open
BatchIdle ==
    [pc |-> "idle", u |-> NoId, limit |-> 0, contents |-> <<>>, i |-> 1, detached |-> FALSE,
     processed |-> 0, auto_summarized |-> 0, on_demand_available |-> 0, errors |-> 0,
     attempted |-> {}, failed |-> 0]

NoBatchResult ==
    [set |-> FALSE, limit |-> 0, selected |-> {}, attempted |-> {}, failed |-> 0,
     processed |-> 0, auto_summarized |-> 0, on_demand_available |-> 0, errors |-> 0]

\* a row of the batch's items: not tagged pending_summary, no match
NoItem == [pending |-> FALSE, matches |-> FALSE]

InitBatch ==
    /\ items = [it \in Items |-> NoItem]
    /\ batch = BatchIdle
    /\ batchResult = NoBatchResult

\* no cache sync is running
SyncIdle == [pc |-> "idle", u |-> NoId, data |-> {}, todo |-> {}, before |-> {}]

NoRead ==
    [set |-> FALSE, u |-> NoId, available |-> TRUE, companies |-> {}, is_following |-> {},
     syncing |-> FALSE, before |-> {}, data |-> {}]

InitSyncIdle ==
    /\ sync = SyncIdle
    /\ lastRead = NoRead

\* the two orders of the calls for two users
CallOrders == [u1_first |-> <<"u1", "u2">>, u2_first |-> <<"u2", "u1">>]

\* no run has an item
InitOrderIdle ==
    orderRuns = [mentions |-> {},
                 run |-> [o \in DOMAIN CallOrders |->
                            [tags |-> <<>>, cache |-> NoResult, done |-> <<>>]]]

NoRepoResult ==
    [set |-> FALSE, op |-> "none", tags |-> <<>>, keyword |-> <<>>, limit |-> 0, offset |-> 0,
     sql |-> "none", outcome |-> "none", rows |-> <<>>]

\* ContentRepo has no rows to read and was not called
InitRepoIdle ==
    /\ library = [p \in Items |-> [tags |-> <<>>, title |-> <<>>]]
    /\ repoResult = NoRepoResult

NoPriorityResult ==
    [set |-> FALSE, u |-> NoId, limit |-> 0, storeFails |-> FALSE, fetched |-> <<>>,
     list |-> <<>>]

\* no content is up for ranking, get_priority_content was not called
InitPriorityIdle ==
    /\ catalog = [p \in Items |-> {}]
    /\ priorityResult = NoPriorityResult

Init ==
    /\ InitContent
    /\ opsStarted = 0
    /\ InitFollowing
    /\ matchResult = NoMatchResult
    /\ InitIngest
    /\ InitBatch
    /\ InitSyncIdle
    /\ InitPriorityIdle
    /\ InitRepoIdle
    /\ InitOrderIdle

StartOp == opsStarted < MaxOps /\ opsStarted' = opsStarted + 1

\* ------------------------------------------------------------- ingestion
\* ingest_rss on a feed of one entry: save_content_to_db rejects a known
\* hash; a saved item gets summarize_task.delay(content_id)
IngestRss(c, lang, kw) ==
    /\ StartOp
    /\ IF content[c].exists
       THEN UNCHANGED <<content, queue>>
       ELSE /\ content' = [content EXCEPT ![c] = NewContent(lang, kw)]
            /\ queue' = [queue EXCEPT ![c] = @ + 1]
    /\ pncLog' = NoLog
    /\ UNCHANGED <<mentions, ai_cache, wk, lastResult, providerCalls, resolved, requested>>
    /\ UNCHANGED <<followVars, matcherVars, ingestVars, batchVars, syncVars, priorityVars, repoVars, orderVars>>

\* ingest_rss step by step, for calls that run at the same time, each on a
\* feed of one entry and in its own session and transaction (PostgreSQL,
\* READ COMMITTED: a transaction does not see rows another one has inserted
\* and not committed; an INSERT that meets such a row with the same unique
\* key waits for that transaction to end).
\* The statistics ingest_rss returns after the loop and db.commit()
IngestStats(i, saved, duplicates, queued_tasks) ==
    [i |-> i, returned |-> "stats", saved |-> saved, duplicates |-> duplicates,
     queued_tasks |-> queued_tasks]

\* the except branch of ingest_rss: db.rollback() and return None
IngestAborted(i) ==
    [i |-> i, returned |-> "None", saved |-> 0, duplicates |-> 0, queued_tasks |-> 0]

\* an uncommitted Content row with the hash of c, held by a call other than i
InsertPending(i, c) ==
    \E j \in Ingesters \ {i} : ing[j].c = c /\ ing[j].pc \in {"queue", "commit"}

\* ingest_rss up to the SELECT of save_content_to_db (rss.py:222-224): a
\* known hash makes save_content_to_db return None, the entry is counted as
\* a duplicate, and the call commits and returns
IngestBegin(i, c, lang, kw) ==
    /\ ing[i].pc = "idle"
    /\ StartOp
    /\ IF content[c].exists
       THEN /\ ingResult' = IngestStats(i, 0, 1, 0)
            /\ UNCHANGED ing
       ELSE /\ ing' = [ing EXCEPT ![i] = [pc |-> "flush", c |-> c, lang |-> lang, kw |-> kw]]
            /\ UNCHANGED ingResult
    /\ pncLog' = NoLog
    /\ UNCHANGED <<content, mentions, ai_cache, queue, wk, lastResult, providerCalls,
                   resolved, requested>>
    /\ UNCHANGED <<followVars, matcherVars, batchVars, syncVars, priorityVars, repoVars, orderVars>>

\* db.add and db.flush (rss.py:227-229): the INSERT waits while another
\* transaction holds a row with this hash; once such a row is committed the
\* INSERT breaks uq_content_hash, the exception leaves save_content_to_db
\* and the except branch of ingest_rss rolls back and returns None
IngestFlush(i) ==
    /\ ing[i].pc = "flush"
    /\ ~InsertPending(i, ing[i].c)
    /\ IF content[ing[i].c].exists
       THEN /\ ing' = [ing EXCEPT ![i] = IngIdle]
            /\ ingResult' = IngestAborted(i)
       ELSE /\ ing' = [ing EXCEPT ![i].pc = "queue"]
            /\ UNCHANGED ingResult
    /\ UNCHANGED <<contentVars, opsStarted>>
    /\ UNCHANGED <<followVars, matcherVars, batchVars, syncVars, priorityVars, repoVars, orderVars>>

\* summarize_task.delay(content_id) (rss.py:291), before the commit
IngestQueue(i) ==
    /\ ing[i].pc = "queue"
    /\ queue' = [queue EXCEPT ![ing[i].c] = @ + 1]
    /\ ing' = [ing EXCEPT ![i].pc = "commit"]
    /\ UNCHANGED <<content, mentions, ai_cache, wk, lastResult, providerCalls, resolved,
                   requested, pncLog, opsStarted, ingResult>>
    /\ UNCHANGED <<followVars, matcherVars, batchVars, syncVars, priorityVars, repoVars, orderVars>>

\* db.commit() after the loop (rss.py:297) and the returned statistics
IngestCommit(i) ==
    /\ ing[i].pc = "commit"
    /\ content' = [content EXCEPT ![ing[i].c] = NewContent(ing[i].lang, ing[i].kw)]
    /\ ing' = [ing EXCEPT ![i] = IngIdle]
    /\ ingResult' = IngestStats(i, 1, 0, 1)
    /\ UNCHANGED <<mentions, ai_cache, queue, wk, lastResult, providerCalls, resolved,
                   requested, pncLog, opsStarted>>
    /\ UNCHANGED <<followVars, matcherVars, batchVars, syncVars, priorityVars, repoVars, orderVars>>

\* POST /summaries/{content_id}/regenerate
regenerate_summary(c) ==
    /\ StartOp
    /\ IF content[c].exists
       THEN /\ queue' = [queue EXCEPT ![c] = @ + 1]
            /\ requested' = requested \cup {c}
       ELSE UNCHANGED <<queue, requested>>
    /\ pncLog' = NoLog
    /\ UNCHANGED <<content, mentions, ai_cache, wk, lastResult, providerCalls, resolved>>
    /\ UNCHANGED <<followVars, matcherVars, ingestVars, batchVars, syncVars, priorityVars, repoVars, orderVars>>

\* ------------------------------------------------------- summarize_task
\* what the caller of summarize_task does once the task has returned
AfterTask(r, taskStatus) ==
    CASE r.op = "auto" -> [r EXCEPT !.pc = "auto_tag", !.task = taskStatus]
      [] r.op = "ondemand" -> [r EXCEPT !.pc = "od_tag", !.task = taskStatus]
      [] OTHER -> Idle

TaskReturn(w, r, taskStatus) ==
    IF r.op = "task"
    THEN lastResult' = Return(w, "summarize_task", r.c, taskStatus, taskStatus)
    ELSE UNCHANGED lastResult

\* tasks.py:243-252: the content row is in the session, then the hash is
\* looked up in ai_cache
Loaded(r, row) ==
    LET hit == get_cached_result(r.c)
    IN IF hit.status = "cached"
       THEN [r EXCEPT !.pc = "sum_commit", !.snap = row, !.ai = hit]
       ELSE [r EXCEPT !.pc = "sum_ai", !.snap = row]

ResolveFromCache(c) ==
    resolved' = IF get_cached_result(c).status = "cached"
                THEN [resolved EXCEPT ![c] = @ \cup {Payload(get_cached_result(c))}]
                ELSE resolved

\* a Celery worker takes a queued summarize_task
StartTask(w, c) ==
    /\ wk[w].pc = "idle"
    /\ queue[c] > 0
    /\ queue' = [queue EXCEPT ![c] = @ - 1]
    /\ LET r == [Idle EXCEPT !.op = "task", !.c = c]
       IN IF content[c].exists
          THEN /\ wk' = [wk EXCEPT ![w] = Loaded(r, content[c])]
               /\ ResolveFromCache(c)
               /\ UNCHANGED lastResult
          ELSE /\ wk' = [wk EXCEPT ![w] = Idle]
               /\ TaskReturn(w, r, "not_found")
               /\ UNCHANGED resolved
    /\ pncLog' = NoLog
    /\ UNCHANGED <<content, mentions, ai_cache, providerCalls, requested, opsStarted>>
    /\ UNCHANGED <<followVars, matcherVars, ingestVars, batchVars, syncVars, priorityVars, repoVars, orderVars>>

\* tasks.py:255 call_openai_summary on a cache miss
SumCallAI(w) ==
    /\ wk[w].pc = "sum_ai"
    /\ \E resp \in ProviderResponses :
          LET res == call_openai_summary(resp)
          IN /\ wk' = [wk EXCEPT ![w] =
                        [@ EXCEPT !.pc = "sum_commit", !.ai = res, !.resp = resp]]
             /\ resolved' = [resolved EXCEPT ![wk[w].c] = @ \cup {Payload(res)}]
             /\ providerCalls' = [providerCalls EXCEPT ![wk[w].c] =
                                      IF InvokesProvider(resp) THEN @ + 1 ELSE @]
    /\ UNCHANGED <<content, mentions, ai_cache, queue, lastResult, requested, pncLog, opsStarted>>
    /\ UNCHANGED <<followVars, matcherVars, ingestVars, batchVars, syncVars, priorityVars, repoVars, orderVars>>

\* tasks.py:267-292: the tag set summarize_task builds, before the [:15] slice
ImprovedTagSet(row, ai) ==
    LET existing == RemoveFirst(row.tags, "pending_summary")
    IN SeqToSet(existing) \cup SeqToSet(ai.tags) \cup {"ai_summarized", "processed"}
         \cup {IF row.lang = "ko" THEN "korean" ELSE "english"}
         \cup row.title_kw

\* a summarize_task that caches whatever call_openai_summary returned
InsertsCache_every(ai) == ai.status # "cached"

\* tasks.py:257-265: only a fresh result with status success is cached
InsertsCache(ai) == ai.status = "success"

\* tasks.py:257-314: save_to_cache on a fresh success, the field updates and
\* db.commit(); a second row for the hash breaks uq_ai_cache, the except
\* branch rolls everything back and the task returns status "error"
SumCommit(w) ==
    /\ wk[w].pc = "sum_commit"
    /\ LET r == wk[w]
           c == r.c
       IN IF InsertsCache(r.ai) /\ ai_cache[c].status # "none"
          THEN /\ UNCHANGED <<content, ai_cache>>
               /\ wk' = [wk EXCEPT ![w] = AfterTask(r, "error")]
               /\ TaskReturn(w, r, "error")
          ELSE /\ Cardinality(ImprovedTagSet(r.snap, r.ai)) <= MaxTags + MaxDropped
               /\ \E T \in Truncations(ImprovedTagSet(r.snap, r.ai)) :
                     content' = [content EXCEPT ![c] =
                         [@ EXCEPT !.summary_bullets = r.ai.summary_bullets,
                                   !.tags = SetToList(T),
                                   !.insight = r.ai.insight]]
               /\ ai_cache' = IF InsertsCache(r.ai)
                              THEN [ai_cache EXCEPT ![c] = r.ai]
                              ELSE ai_cache
               /\ wk' = [wk EXCEPT ![w] = AfterTask(r, "success")]
               /\ TaskReturn(w, r, "success")
    /\ UNCHANGED <<mentions, queue, providerCalls, resolved, requested, pncLog, opsStarted>>
    /\ UNCHANGED <<followVars, matcherVars, ingestVars, batchVars, syncVars, priorityVars, repoVars, orderVars>>

\* --------------------------------------------------- selective pipeline
\* process_new_content, lines 44-53: the matcher decides the branch
process_new_content(w, c, u, storeFails) ==
    /\ wk[w].pc = "idle"
    /\ StartOp
    /\ \E m \in MatchResults(c, u, storeFails) :
          LET again == pncLog.first.set /\ pncLog.first.c = c /\ pncLog.first.u = u
          IN wk' = [wk EXCEPT ![w] =
                 [Idle EXCEPT !.pc = IF m.should_summarize THEN "sum_load" ELSE "mark",
                              !.op = IF m.should_summarize THEN "auto" ELSE "mark",
                              !.c = c, !.u = u, !.second = again,
                              !.storeFails = storeFails, !.match_result = m]]
    /\ pncLog' = [pncLog EXCEPT !.clean = TRUE]
    /\ UNCHANGED <<content, mentions, ai_cache, providerCalls, resolved, queue, lastResult,
                   requested>>
    /\ UNCHANGED <<followVars, matcherVars, ingestVars, batchVars, syncVars, priorityVars, repoVars, orderVars>>

\* _auto_summarize line 68: summarize_task(content_id) called in-process
SumLoad(w) ==
    /\ wk[w].pc = "sum_load"
    /\ LET r == wk[w]
       IN IF content[r.c].exists
          THEN /\ wk' = [wk EXCEPT ![w] = Loaded(r, content[r.c])]
               /\ ResolveFromCache(r.c)
          ELSE /\ wk' = [wk EXCEPT ![w] = AfterTask(r, "not_found")]
               /\ UNCHANGED resolved
    /\ UNCHANGED <<content, mentions, ai_cache, providerCalls, queue, lastResult, requested,
                   pncLog, opsStarted>>
    /\ UNCHANGED <<followVars, matcherVars, ingestVars, batchVars, syncVars, priorityVars, repoVars, orderVars>>

\* the tag list a pipeline step leaves in the table: the session was closed
\* by summarize_task (or is new), so the row is read afresh; with
\* pending_summary present content.tags is assigned a new list, which the
\* appends extend and commit() writes; without it the appends change only
\* the loaded list and commit() writes nothing
SwapPending(tags, added) ==
    IF "pending_summary" \in SeqToSet(tags)
    THEN Without(tags, "pending_summary") \o added
    ELSE tags

\* history: a finished process_new_content call is noted, and paired with
\* the call before it when that was for the same content and user, no other
\* handler started in between or during either call, and the matcher's store
\* reads succeeded in both
LogCall(r, tagsAfter) ==
    LET this == [set |-> TRUE, c |-> r.c, u |-> r.u, tags |-> SeqToSet(tagsAfter),
                 calls |-> providerCalls[r.c], storeOk |-> ~r.storeFails]
    IN pncLog' =
           IF ~pncLog.clean THEN NoLog
           ELSE [first |-> this,
                 pair |-> IF r.second /\ pncLog.first.set /\ pncLog.first.storeOk /\ this.storeOk
                          THEN [set |-> TRUE,
                                tags1 |-> pncLog.first.tags, tags2 |-> this.tags,
                                calls1 |-> pncLog.first.calls, calls2 |-> this.calls]
                          ELSE NoPair,
                 clean |-> FALSE]

\* an _auto_summarize that keeps the row it held before summarize_task ran
\* and stores the swap made on that row's tag list
AutoTag_stale(w) ==
    /\ wk[w].pc = "auto_tag"
    /\ LET r == wk[w]
           held == IF r.snap.exists THEN r.snap.tags ELSE content[r.c].tags
           tagsAfter == IF content[r.c].exists
                        THEN SwapPending(held, <<"auto_summarized", "following_company">>)
                        ELSE <<>>
       IN /\ content' = IF content[r.c].exists
                        THEN [content EXCEPT ![r.c].tags = tagsAfter]
                        ELSE content
          /\ lastResult' = Return(w, "process_new_content", r.c, "auto_summarized", r.task)
          /\ LogCall(r, tagsAfter)
    /\ wk' = [wk EXCEPT ![w] = Idle]
    /\ UNCHANGED <<mentions, ai_cache, providerCalls, resolved, queue, requested, opsStarted>>
    /\ UNCHANGED <<followVars, matcherVars, ingestVars, batchVars, syncVars, priorityVars, repoVars, orderVars>>

\* _auto_summarize lines 70-87
AutoTag(w) ==
    /\ wk[w].pc = "auto_tag"
    /\ LET r == wk[w]
           tagsAfter == IF content[r.c].exists
                        THEN SwapPending(content[r.c].tags,
                                         <<"auto_summarized", "following_company">>)
                        ELSE <<>>
       IN /\ content' = IF content[r.c].exists
                        THEN [content EXCEPT ![r.c].tags = tagsAfter]
                        ELSE content
          /\ lastResult' = Return(w, "process_new_content", r.c, "auto_summarized", r.task)
          /\ LogCall(r, tagsAfter)
    /\ wk' = [wk EXCEPT ![w] = Idle]
    /\ UNCHANGED <<mentions, ai_cache, providerCalls, resolved, queue, requested, opsStarted>>
    /\ UNCHANGED <<followVars, matcherVars, ingestVars, batchVars, syncVars, priorityVars, repoVars, orderVars>>

\* _mark_for_on_demand lines 100-125; after a failed store read in the
\* matcher the session may still answer (a passing fault) or raise again on
\* the query of line 104, which the except branch turns into
\* on_demand_setup_failed
MarkForOnDemand(w) ==
    /\ wk[w].pc = "mark"
    /\ LET r == wk[w]
           tagsAfter == IF content[r.c].exists
                        THEN SwapPending(content[r.c].tags, <<"on_demand_available">>)
                        ELSE <<>>
       IN \/ /\ content' = IF content[r.c].exists
                            THEN [content EXCEPT ![r.c].tags = tagsAfter]
                            ELSE content
             /\ lastResult' = Return(w, "process_new_content", r.c, "on_demand_available",
                                     "none")
             /\ LogCall(r, tagsAfter)
          \/ /\ r.storeFails
             /\ UNCHANGED content
             /\ lastResult' = Return(w, "process_new_content", r.c,
                                     "on_demand_setup_failed", "none")
             /\ LogCall(r, IF content[r.c].exists THEN content[r.c].tags ELSE <<>>)
    /\ wk' = [wk EXCEPT ![w] = Idle]
    /\ UNCHANGED <<mentions, ai_cache, providerCalls, resolved, queue, requested, opsStarted>>
    /\ UNCHANGED <<followVars, matcherVars, ingestVars, batchVars, syncVars, priorityVars, repoVars, orderVars>>

\* a trigger that summarizes whatever the item already holds
trigger_on_demand_summary_unchecked(w, c, u) ==
    /\ wk[w].pc = "idle"
    /\ StartOp
    /\ LET row == content[c]
           r == [Idle EXCEPT !.op = "ondemand", !.c = c, !.u = u]
       IN IF ~row.exists
          THEN /\ lastResult' = Return(w, "trigger_on_demand_summary", c, "error", "none")
               /\ UNCHANGED <<wk, requested, resolved>>
          ELSE /\ requested' = requested \cup {c}
               /\ wk' = [wk EXCEPT ![w] = Loaded(r, row)]
               /\ ResolveFromCache(c)
               /\ UNCHANGED lastResult
    /\ pncLog' = NoLog
    /\ UNCHANGED <<content, mentions, ai_cache, providerCalls, queue>>
    /\ UNCHANGED <<followVars, matcherVars, ingestVars, batchVars, syncVars, priorityVars, repoVars, orderVars>>

\* trigger_on_demand_summary lines 264-284: the row is loaded here and the
\* in-process summarize_task finds the same object in the session
trigger_on_demand_summary(w, c, u) ==
    /\ wk[w].pc = "idle"
    /\ StartOp
    /\ LET row == content[c]
           r == [Idle EXCEPT !.op = "ondemand", !.c = c, !.u = u]
       IN IF ~row.exists
          THEN /\ lastResult' = Return(w, "trigger_on_demand_summary", c, "error", "none")
               /\ UNCHANGED <<wk, requested, resolved>>
          ELSE /\ requested' = requested \cup {c}
               /\ IF Truthy(row.insight) /\ Truthy(row.summary_bullets)
                  THEN /\ lastResult' =
                              [Return(w, "trigger_on_demand_summary", c,
                                      "already_summarized", "none")
                                 EXCEPT !.summary_bullets = row.summary_bullets,
                                        !.insight = row.insight]
                       /\ UNCHANGED <<wk, resolved>>
                  ELSE /\ wk' = [wk EXCEPT ![w] = Loaded(r, row)]
                       /\ ResolveFromCache(c)
                       /\ UNCHANGED lastResult
    /\ pncLog' = NoLog
    /\ UNCHANGED <<content, mentions, ai_cache, providerCalls, queue>>
    /\ UNCHANGED <<followVars, matcherVars, ingestVars, batchVars, syncVars, priorityVars, repoVars, orderVars>>

\* trigger_on_demand_summary lines 286-306: summarize_task has committed (or
\* rolled back) and closed the shared session, so `content` is expired and
\* detached; content.tags raises, the except branch returns status "error"
\* and no tag is written
OnDemandTag(w) ==
    /\ wk[w].pc = "od_tag"
    /\ lastResult' = Return(w, "trigger_on_demand_summary", wk[w].c, "error", wk[w].task)
    /\ wk' = [wk EXCEPT ![w] = Idle]
    /\ UNCHANGED <<content, mentions, ai_cache, providerCalls, resolved, queue, requested,
                   pncLog, opsStarted>>
    /\ UNCHANGED <<followVars, matcherVars, ingestVars, batchVars, syncVars, priorityVars, repoVars, orderVars>>

\* ------------------------------------------------ process_batch_content
\* The batch works on the rows p1..p3 of the content table, kept apart from
\* Contents; of a row only what the batch reads and what the single-item
\* transition leaves behind is kept: whether it is tagged pending_summary
\* and whether should_auto_summarize says yes for the user.
\* faults a single-item transition can meet: none, a failing store read in
\* the matcher, a failing query or commit of the tag update
Faults == {"none", "store", "write"}

\* the statuses process_new_content can return for an item (lines 46-53,
\* 79-96, 109-124); a matcher whose read fails answers no match
SingleItemStatuses(matches, fault) ==
    CASE fault = "store" -> {"on_demand_available", "on_demand_setup_failed"}
      [] fault = "write" -> IF matches THEN {"auto_summarize_failed"}
                            ELSE {"on_demand_setup_failed"}
      [] OTHER -> IF matches THEN {"auto_summarized"} ELSE {"on_demand_available"}

\* _auto_summarize has run summarize_task, which commits or rolls back and
\* closes the session it shares with the batch
ClosesSession(status) == status \in {"auto_summarized", "auto_summarize_failed"}

\* the item's pending_summary tag after the transition: summarize_task and
\* a committed mark remove it
PendingAfter(pending, status) ==
    IF status = "on_demand_setup_failed" THEN pending ELSE FALSE

\* lines 162-167: the counter a returned status adds to, if any
CountedAs(status) ==
    CASE status = "auto_summarized" -> "auto_summarized"
      [] status = "on_demand_available" -> "on_demand_available"
      [] status = "error" -> "errors"
      [] OTHER -> "none"

\* the sequences of n distinct items of S
RECURSIVE Arrangements(_, _)
Arrangements(S, n) ==
    IF n = 0 THEN {<<>>}
    ELSE {<<it>> \o rest : it \in S, rest \in Arrangements(S, n - 1)} \cap
         {sq \in UNION {[1..n -> S]} : \A a, b \in 1..n : a # b => sq[a] # sq[b]}

\* lines 144-146: up to limit rows tagged pending_summary, in no stated order
Selections(limit) ==
    LET pending == {it \in Items : items[it].pending}
        n == IF Cardinality(pending) < limit THEN Cardinality(pending) ELSE limit
    IN Arrangements(pending, n)

\* process_batch_content lines 142-154: the query and the zeroed counters
process_batch_content(u, limit) ==
    /\ batch.pc = "idle"
    /\ StartOp
    /\ \E sel \in Selections(limit) :
          batch' = [BatchIdle EXCEPT !.pc = "loop", !.u = u, !.limit = limit, !.contents = sel]
    /\ UNCHANGED <<items, batchResult>>
    /\ UNCHANGED <<contentVars, followVars, matcherVars, ingestVars, syncVars, priorityVars, repoVars, orderVars>>

\* the result of the outer except branch, lines 180-188
BatchAborted(b) ==
    [set |-> TRUE, limit |-> b.limit, selected |-> SeqToSet(b.contents),
     attempted |-> b.attempted, failed |-> b.failed,
     processed |-> 0, auto_summarized |-> 0, on_demand_available |-> 0, errors |-> 1]

\* one pass of the loop, lines 156-176.  With the session closed by an
\* earlier item the rows of `contents` are expired and detached: content.id
\* raises on line 158, and raises again in the handler on line 170, which
\* leaves the loop for the outer except branch
BatchItem(fault) ==
    /\ batch.pc = "loop"
    /\ batch.i <= Len(batch.contents)
    /\ LET it == batch.contents[batch.i]
           tried == [batch EXCEPT !.attempted = @ \cup {it}]
       IN IF batch.detached
          THEN /\ batchResult' = BatchAborted([tried EXCEPT !.failed = @ + 1])
               /\ batch' = BatchIdle
               /\ UNCHANGED items
          ELSE \E status \in SingleItemStatuses(items[it].matches, fault) :
                  /\ items' = [items EXCEPT ![it].pending = PendingAfter(@, status)]
                  /\ batch' =
                        [tried EXCEPT
                           !.i = @ + 1,
                           !.detached = ClosesSession(status),
                           !.processed = @ + 1,
                           !.auto_summarized =
                               IF CountedAs(status) = "auto_summarized" THEN @ + 1 ELSE @,
                           !.on_demand_available =
                               IF CountedAs(status) = "on_demand_available" THEN @ + 1 ELSE @,
                           !.errors = IF CountedAs(status) = "errors" THEN @ + 1 ELSE @,
                           !.failed =
                               IF status \in {"auto_summarized", "on_demand_available"}
                               THEN @ ELSE @ + 1]
                  /\ UNCHANGED batchResult
    /\ UNCHANGED <<contentVars, opsStarted, followVars, matcherVars, ingestVars, syncVars, priorityVars, repoVars, orderVars>>

\* line 178: return results
BatchReturn ==
    /\ batch.pc = "loop"
    /\ batch.i > Len(batch.contents)
    /\ batchResult' =
          [set |-> TRUE, limit |-> batch.limit, selected |-> SeqToSet(batch.contents),
           attempted |-> batch.attempted, failed |-> batch.failed,
           processed |-> batch.processed, auto_summarized |-> batch.auto_summarized,
           on_demand_available |-> batch.on_demand_available, errors |-> batch.errors]
    /\ batch' = BatchIdle
    /\ UNCHANGED items
    /\ UNCHANGED <<contentVars, opsStarted, followVars, matcherVars, ingestVars, syncVars, priorityVars, repoVars, orderVars>>

\* ---------------------------------------------------- company extraction
\* extract_companies_from_content (Celery task): mentions for the companies
\* the extraction names; found = {} also stands for a failed extraction
extract_companies_from_content(c, found) ==
    /\ StartOp
    /\ content[c].exists
    /\ mentions' = [mentions EXCEPT ![c] = @ \cup found]
    /\ pncLog' = NoLog
    /\ UNCHANGED <<content, ai_cache, providerCalls, resolved, queue, wk, lastResult, requested>>
    /\ UNCHANGED <<followVars, matcherVars, ingestVars, batchVars, syncVars, priorityVars, repoVars, orderVars>>

\* process_all_pending_content: every item tagged pending_summary is
\* extracted and, unless its extraction reported an error, re-tagged
process_all_pending_content(found, failed) ==
    /\ StartOp
    /\ LET pending == {c \in Contents :
                          content[c].exists /\ "pending_summary" \in SeqToSet(content[c].tags)}
       IN /\ pending # {}
          /\ mentions' = [c \in Contents |->
                 IF c \in pending /\ c \notin failed THEN mentions[c] \cup found[c]
                 ELSE mentions[c]]
          /\ content' = [c \in Contents |->
                 IF c \in pending /\ c \notin failed
                 THEN [content[c] EXCEPT !.tags =
                          SwapPending(@, <<"company_extracted">>)]
                 ELSE content[c]]
    /\ pncLog' = NoLog
    /\ UNCHANGED <<ai_cache, providerCalls, resolved, queue, wk, lastResult, requested>>
    /\ UNCHANGED <<followVars, matcherVars, ingestVars, batchVars, syncVars, priorityVars, repoVars, orderVars>>

\* ------------------------------------------------------- following store
\* Redis is taken to answer every command; the except branches of the cache
\* service (a Redis error) are not part of the model.
RowsOf(u, co) == {f \in user_followings : f.user_id = u /\ f.company_id = co}

\* FollowingCacheService.is_following: SISMEMBER user_following:{u}
is_following(u, co) == <<u, co>> \in redis_following

Response(r, op, u, co, status) ==
    [r |-> r, op |-> op, u |-> u, co |-> co, status |-> status]

\* history: a follow call for (u, co) starts; the first call since the last
\* remove notes whether the pair was then absent from the table and the cache
FollowStarts(u, co) ==
    IF co \in Companies /\ followLog[<<u, co>>].calls = <<>>
    THEN [followLog EXCEPT ![<<u, co>>].fresh = RowsOf(u, co) = {} /\ ~is_following(u, co)]
    ELSE followLog

\* history: a follow call for (u, co) returns; the first two calls are kept,
\* with the rows and the cache entry the pair has when the call returns
FollowReturns(log, op, u, co, status, rowsAfter, cachedAfter) ==
    IF co \in Companies /\ Len(log[<<u, co>>].calls) < 2
    THEN [log EXCEPT ![<<u, co>>] =
             [@ EXCEPT !.calls = Append(@, [op |-> op, status |-> status]),
                       !.rows = rowsAfter, !.cached = cachedAfter]]
    ELSE log

\* history: a remove or unfollow call for (u, co) starts
RemoveStarts(u, co) ==
    IF co \in Companies THEN [followLog EXCEPT ![<<u, co>>] = NoFollowLog] ELSE followLog

\* the row UserFollowing(...) plus db.add and db.commit store
Insert(u, co, auto) ==
    /\ user_followings' = user_followings \cup {Row(nextFollowingId, u, co, 1, auto)}
    /\ nextFollowingId' = nextFollowingId + 1

\* FollowingCacheService.add_following lines 72-87: SADD, EXPIRE, SETEX
CacheAdd(u, co) ==
    /\ redis_following' = redis_following \cup {<<u, co>>}
    /\ redis_info' = redis_info \cup {<<u, co>>}

\* FollowingCacheService.remove_following lines 109-117: SREM, DEL
CacheRemove(u, co) ==
    /\ redis_following' = redis_following \ {<<u, co>>}
    /\ redis_info' = redis_info \ {<<u, co>>}

\* POST /companies/{company_id}/follow, lines 246-257: the company lookup
\* and the get_user_following check
follow_company(r, u, co, auto) ==
    /\ fw[r].pc = "idle"
    /\ StartOp
    /\ LET status == IF co \notin Companies THEN "not_found"
                     ELSE IF RowsOf(u, co) # {} THEN "declined"
                     ELSE "none"
       IN IF status = "none"
          THEN /\ fw' = [fw EXCEPT ![r] = [pc |-> "fc_insert", op |-> "follow_company",
                                            u |-> u, co |-> co, auto |-> auto, id |-> 0]]
               /\ followLog' = FollowStarts(u, co)
               /\ UNCHANGED lastFollow
          ELSE /\ lastFollow' = Response(r, "follow_company", u, co, status)
               /\ followLog' = FollowReturns(FollowStarts(u, co), "follow_company", u, co, status,
                                             Cardinality(RowsOf(u, co)), is_following(u, co))
               /\ UNCHANGED fw
    /\ UNCHANGED <<user_followings, nextFollowingId, redis_following, redis_info>>
    /\ UNCHANGED <<contentVars, matcherVars, ingestVars, batchVars, syncVars, priorityVars, repoVars, orderVars>>

\* follow_company lines 259-276: repo.create_user_following and the response
FcInsert(r) ==
    /\ fw[r].pc = "fc_insert"
    /\ LET u == fw[r].u
           co == fw[r].co
       IN /\ Insert(u, co, fw[r].auto)
          /\ lastFollow' = Response(r, "follow_company", u, co, "success")
          /\ followLog' = FollowReturns(followLog, "follow_company", u, co, "success",
                                        Cardinality(RowsOf(u, co)) + 1, is_following(u, co))
    /\ fw' = [fw EXCEPT ![r] = FwIdle]
    /\ UNCHANGED <<redis_following, redis_info, opsStarted>>
    /\ UNCHANGED <<contentVars, matcherVars, ingestVars, batchVars, syncVars, priorityVars, repoVars, orderVars>>

\* POST /companies/{company_id}/follow/fast, lines 194-202: the company
\* lookup and the cache's is_following check
follow_company_fast(r, u, co, auto) ==
    /\ fw[r].pc = "idle"
    /\ StartOp
    /\ LET status == IF co \notin Companies THEN "not_found"
                     ELSE IF is_following(u, co) THEN "declined"
                     ELSE "none"
       IN IF status = "none"
          THEN /\ fw' = [fw EXCEPT ![r] = [pc |-> "ff_insert", op |-> "follow_company_fast",
                                            u |-> u, co |-> co, auto |-> auto, id |-> 0]]
               /\ followLog' = FollowStarts(u, co)
               /\ UNCHANGED lastFollow
          ELSE /\ lastFollow' = Response(r, "follow_company_fast", u, co, status)
               /\ followLog' = FollowReturns(FollowStarts(u, co), "follow_company_fast", u, co,
                                             status, Cardinality(RowsOf(u, co)),
                                             is_following(u, co))
               /\ UNCHANGED fw
    /\ UNCHANGED <<user_followings, nextFollowingId, redis_following, redis_info>>
    /\ UNCHANGED <<contentVars, matcherVars, ingestVars, batchVars, syncVars, priorityVars, repoVars, orderVars>>

\* follow_company_fast lines 204-213: db.add(following_record), db.commit()
FfInsert(r) ==
    /\ fw[r].pc = "ff_insert"
    /\ Insert(fw[r].u, fw[r].co, fw[r].auto)
    /\ fw' = [fw EXCEPT ![r].pc = "ff_cache"]
    /\ UNCHANGED <<redis_following, redis_info, lastFollow, followLog, opsStarted>>
    /\ UNCHANGED <<contentVars, matcherVars, ingestVars, batchVars, syncVars, priorityVars, repoVars, orderVars>>

\* follow_company_fast lines 215-229: following_cache.add_following and the
\* response
FfCacheAdd(r) ==
    /\ fw[r].pc = "ff_cache"
    /\ LET u == fw[r].u
           co == fw[r].co
       IN /\ CacheAdd(u, co)
          /\ lastFollow' = Response(r, "follow_company_fast", u, co, "success")
          /\ followLog' = FollowReturns(followLog, "follow_company_fast", u, co, "success",
                                        Cardinality(RowsOf(u, co)), TRUE)
    /\ fw' = [fw EXCEPT ![r] = FwIdle]
    /\ UNCHANGED <<user_followings, nextFollowingId, opsStarted>>
    /\ UNCHANGED <<contentVars, matcherVars, ingestVars, batchVars, syncVars, priorityVars, repoVars, orderVars>>

\* FollowingCacheService.add_following called on its own: it returns True
\* whether or not the company was already in the set
add_following(r, u, co) ==
    /\ fw[r].pc = "idle"
    /\ StartOp
    /\ CacheAdd(u, co)
    /\ lastFollow' = Response(r, "add_following", u, co, "success")
    /\ followLog' = FollowReturns(FollowStarts(u, co), "add_following", u, co, "success",
                                  Cardinality(RowsOf(u, co)), TRUE)
    /\ UNCHANGED <<user_followings, nextFollowingId, fw>>
    /\ UNCHANGED <<contentVars, matcherVars, ingestVars, batchVars, syncVars, priorityVars, repoVars, orderVars>>

\* UserPreferencesService.add_following_company: after the two lookups the
\* UserFollowing constructor is given notes=, which the model class does not
\* have; it raises TypeError, the except branch rolls back and returns
\* {"error": ...}, so no row is ever stored on this path
add_following_company(r, u, co) ==
    /\ fw[r].pc = "idle"
    /\ StartOp
    /\ LET status == IF co \notin Companies THEN "not_found"
                     ELSE IF RowsOf(u, co) # {} THEN "declined"
                     ELSE "error"
       IN /\ lastFollow' = Response(r, "add_following_company", u, co, status)
          /\ followLog' = FollowReturns(FollowStarts(u, co), "add_following_company", u, co,
                                        status, Cardinality(RowsOf(u, co)), is_following(u, co))
    /\ UNCHANGED <<user_followings, nextFollowingId, redis_following, redis_info, fw>>
    /\ UNCHANGED <<contentVars, matcherVars, ingestVars, batchVars, syncVars, priorityVars, repoVars, orderVars>>

\* DELETE /companies/{company_id}/unfollow, lines 305-311: the
\* get_user_following lookup (.first() of the matching rows, in no stated
\* order); the row found is kept for the delete
unfollow_company(r, u, co) ==
    /\ fw[r].pc = "idle"
    /\ StartOp
    /\ followLog' = RemoveStarts(u, co)
    /\ IF RowsOf(u, co) = {}
       THEN /\ lastFollow' = Response(r, "unfollow_company", u, co, "not_found")
            /\ UNCHANGED fw
       ELSE /\ \E row \in RowsOf(u, co) :
                  fw' = [fw EXCEPT ![r] = [pc |-> "uc_delete", op |-> "unfollow_company",
                                            u |-> u, co |-> co, auto |-> FALSE,
                                            id |-> row.id]]
            /\ UNCHANGED lastFollow
    /\ UNCHANGED <<user_followings, nextFollowingId, redis_following, redis_info>>
    /\ UNCHANGED <<contentVars, matcherVars, ingestVars, batchVars, syncVars, priorityVars, repoVars, orderVars>>

\* unfollow_company lines 313-321: repo.delete_user_following(following.id)
\* deletes the row with that id if it is still there
UcDelete(r) ==
    /\ fw[r].pc = "uc_delete"
    /\ user_followings' = {f \in user_followings : f.id # fw[r].id}
    /\ lastFollow' = Response(r, "unfollow_company", fw[r].u, fw[r].co, "success")
    /\ fw' = [fw EXCEPT ![r] = FwIdle]
    /\ UNCHANGED <<nextFollowingId, redis_following, redis_info, followLog, opsStarted>>
    /\ UNCHANGED <<contentVars, matcherVars, ingestVars, batchVars, syncVars, priorityVars, repoVars, orderVars>>

\* DELETE /companies/{company_id}/unfollow/fast, lines 249-251: the cache's
\* is_following check
unfollow_company_fast(r, u, co) ==
    /\ fw[r].pc = "idle"
    /\ StartOp
    /\ followLog' = RemoveStarts(u, co)
    /\ IF ~is_following(u, co)
       THEN /\ lastFollow' = Response(r, "unfollow_company_fast", u, co, "declined")
            /\ UNCHANGED fw
       ELSE /\ fw' = [fw EXCEPT ![r] = [pc |-> "uf_delete", op |-> "unfollow_company_fast",
                                         u |-> u, co |-> co, auto |-> FALSE, id |-> 0]]
            /\ UNCHANGED lastFollow
    /\ UNCHANGED <<user_followings, nextFollowingId, redis_following, redis_info>>
    /\ UNCHANGED <<contentVars, matcherVars, ingestVars, batchVars, syncVars, priorityVars, repoVars, orderVars>>

\* unfollow_company_fast lines 253-261: the first matching row, if any, is
\* deleted
UfDelete(r) ==
    /\ fw[r].pc = "uf_delete"
    /\ IF RowsOf(fw[r].u, fw[r].co) = {}
       THEN UNCHANGED user_followings
       ELSE \E row \in RowsOf(fw[r].u, fw[r].co) :
               user_followings' = user_followings \ {row}
    /\ fw' = [fw EXCEPT ![r].pc = "uf_cache"]
    /\ UNCHANGED <<nextFollowingId, redis_following, redis_info, lastFollow, followLog,
                   opsStarted>>
    /\ UNCHANGED <<contentVars, matcherVars, ingestVars, batchVars, syncVars, priorityVars, repoVars, orderVars>>

\* unfollow_company_fast lines 263-271: following_cache.remove_following and
\* the response
UfCacheRemove(r) ==
    /\ fw[r].pc = "uf_cache"
    /\ CacheRemove(fw[r].u, fw[r].co)
    /\ lastFollow' = Response(r, "unfollow_company_fast", fw[r].u, fw[r].co, "success")
    /\ fw' = [fw EXCEPT ![r] = FwIdle]
    /\ UNCHANGED <<user_followings, nextFollowingId, followLog, opsStarted>>
    /\ UNCHANGED <<contentVars, matcherVars, ingestVars, batchVars, syncVars, priorityVars, repoVars, orderVars>>

\* FollowingCacheService.remove_following called on its own
remove_following(r, u, co) ==
    /\ fw[r].pc = "idle"
    /\ StartOp
    /\ followLog' = RemoveStarts(u, co)
    /\ CacheRemove(u, co)
    /\ lastFollow' = Response(r, "remove_following", u, co, "success")
    /\ UNCHANGED <<user_followings, nextFollowingId, fw>>
    /\ UNCHANGED <<contentVars, matcherVars, ingestVars, batchVars, syncVars, priorityVars, repoVars, orderVars>>

\* ------------------------------------------------------- mirror reads
\* the members of the Redis set following:{u}
Mirror(u) == {co \in Companies : <<u, co>> \in redis_following}

\* the info keys following_info:{u}:{co} that exist
MirrorInfo(u) == {co \in Companies : <<u, co>> \in redis_info}

\* a cache read that takes an unreachable Redis for a set holding everything
cache_get_following_companies_open(u, available) ==
    IF available THEN Mirror(u) ELSE Companies

\* FollowingCacheService.get_following_companies lines 40-46: SMEMBERS, and
\* set() from the except branch when Redis raises
cache_get_following_companies(u, available) ==
    IF available THEN Mirror(u) ELSE {}

\* FollowingCacheService.is_following lines 162-167, with its except branch:
\* the companies for which it answers True
cache_is_following(u, available) ==
    IF available THEN {co \in Companies : is_following(u, co)} ELSE {}

\* a caller reads the mirror of u, Redis answering or not; the read is noted
\* with the sync that was running for u when it was taken, if any
ReadMirror(u, available) ==
    /\ lastRead' =
          [set |-> TRUE, u |-> u, available |-> available,
           companies |-> cache_get_following_companies(u, available),
           is_following |-> cache_is_following(u, available),
           syncing |-> sync.u = u /\ sync.pc # "idle",
           before |-> sync.before, data |-> sync.data]
    /\ lastRead' # lastRead
    /\ UNCHANGED <<sync, opsStarted>>
    /\ UNCHANGED <<contentVars, followVars, matcherVars, ingestVars, batchVars, priorityVars, repoVars, orderVars>>

\* ----------------------------------------------------------- cache sync
\* POST /companies/sync-cache, companies_optimized.py lines 291-303: the
\* user's rows are read and turned into a dict keyed by company id
sync_following_cache(u) ==
    /\ sync.pc = "idle"
    /\ StartOp
    /\ LET data == {f.company_id : f \in {g \in user_followings : g.user_id = u}}
       IN sync' = [pc |-> "delete", u |-> u, data |-> data, todo |-> data,
                   before |-> Mirror(u)]
    /\ UNCHANGED lastRead
    /\ UNCHANGED <<contentVars, followVars, matcherVars, ingestVars, batchVars, priorityVars, repoVars, orderVars>>

\* sync_from_db line 216: DEL following:{u}
SyncDelete ==
    /\ sync.pc = "delete"
    /\ redis_following' = {p \in redis_following : p[1] # sync.u}
    /\ sync' = [sync EXCEPT !.pc = "add"]
    /\ UNCHANGED <<user_followings, nextFollowingId, redis_info, fw, lastFollow, followLog,
                   lastRead, opsStarted>>
    /\ UNCHANGED <<contentVars, matcherVars, ingestVars, batchVars, priorityVars, repoVars, orderVars>>

\* sync_from_db lines 219-223, one pass of the loop: SADD and SETEX for one
\* company of the snapshot
SyncAdd(co) ==
    /\ sync.pc = "add"
    /\ co \in sync.todo
    /\ redis_following' = redis_following \cup {<<sync.u, co>>}
    /\ redis_info' = redis_info \cup {<<sync.u, co>>}
    /\ sync' = [sync EXCEPT !.todo = @ \ {co}]
    /\ UNCHANGED <<user_followings, nextFollowingId, fw, lastFollow, followLog, lastRead,
                   opsStarted>>
    /\ UNCHANGED <<contentVars, matcherVars, ingestVars, batchVars, priorityVars, repoVars, orderVars>>

\* the loop is over: EXPIRE on line 225, then the response
SyncLoopEnds ==
    /\ sync.pc = "add"
    /\ sync.todo = {}
    /\ sync' = [sync EXCEPT !.pc = "expire"]
    /\ UNCHANGED lastRead
    /\ UNCHANGED <<contentVars, opsStarted, followVars, matcherVars, ingestVars, batchVars, priorityVars, repoVars, orderVars>>

\* sync_from_db returns True and the handler answers success
SyncReturns ==
    /\ sync.pc = "expire"
    /\ sync' = [SyncIdle EXCEPT !.u = sync.u, !.data = sync.data, !.before = sync.before]
    /\ UNCHANGED lastRead
    /\ UNCHANGED <<contentVars, opsStarted, followVars, matcherVars, ingestVars, batchVars, priorityVars, repoVars, orderVars>>

\* cache_ttl (3600 s) runs out for user_following:{u}: Redis drops the set
FollowingKeyExpires(u) ==
    /\ \E p \in redis_following : p[1] = u
    /\ redis_following' = {p \in redis_following : p[1] # u}
    /\ UNCHANGED <<user_followings, nextFollowingId, redis_info, fw, lastFollow, followLog,
                   opsStarted>>
    /\ UNCHANGED <<contentVars, matcherVars, ingestVars, batchVars, syncVars, priorityVars, repoVars, orderVars>>

\* cache_ttl runs out for user_following_info:{u}:{co}
InfoKeyExpires(u, co) ==
    /\ <<u, co>> \in redis_info
    /\ redis_info' = redis_info \ {<<u, co>>}
    /\ UNCHANGED <<user_followings, nextFollowingId, redis_following, fw, lastFollow,
                   followLog, opsStarted>>
    /\ UNCHANGED <<contentVars, matcherVars, ingestVars, batchVars, syncVars, priorityVars, repoVars, orderVars>>

\* the follow and unfollow handlers and their steps, run in the request
\* slots of R
NextFollowOver(R) ==
    \/ \E r \in R, u \in Users, co \in Companies \cup {UnknownCompany}, auto \in BOOLEAN :
          follow_company(r, u, co, auto)
    \/ \E r \in R : FcInsert(r)
    \/ \E r \in R, u \in Users, co \in Companies \cup {UnknownCompany}, auto \in BOOLEAN :
          follow_company_fast(r, u, co, auto)
    \/ \E r \in R : FfInsert(r)
    \/ \E r \in R : FfCacheAdd(r)
    \/ \E r \in R, u \in Users, co \in Companies : add_following(r, u, co)
    \/ \E r \in R, u \in Users, co \in Companies \cup {UnknownCompany} :
          add_following_company(r, u, co)
    \/ \E r \in R, u \in Users, co \in Companies : unfollow_company(r, u, co)
    \/ \E r \in R : UcDelete(r)
    \/ \E r \in R, u \in Users, co \in Companies : unfollow_company_fast(r, u, co)
    \/ \E r \in R : UfDelete(r)
    \/ \E r \in R : UfCacheRemove(r)
    \/ \E r \in R, u \in Users, co \in Companies : remove_following(r, u, co)
    \/ \E u \in Users : FollowingKeyExpires(u)
    \/ \E u \in Users, co \in Companies : InfoKeyExpires(u, co)

\* the following store alone, the database holding no content
InitFollow == Init /\ \A c \in Contents : ~content[c].exists

\* one follow request at a time
NextFollowSeq == NextFollowOver({"r1"})

SpecFollowSeq == InitFollow /\ [][NextFollowSeq]_vars

\* the requests of all slots interleave
NextFollow == NextFollowOver(Reqs)

SpecFollow == InitFollow /\ [][NextFollow]_vars

\* ------------------------------------------------------ matcher, alone
MatcherUsers == {"u1", "u2"}

\* user_followings rows the matcher may meet: any of these, also two rows
\* for one (user, company), as the table has no unique constraint
CandidateRows ==
    { Row(1, "u1", "A", 3, TRUE), Row(2, "u1", "A", 1, FALSE),
      Row(3, "u1", "B", 5, TRUE), Row(4, "u1", "B", 3, FALSE),
      Row(5, "u2", "A", 2, TRUE), Row(6, "u2", "B", 3, FALSE) }

InitMatcher ==
    /\ InitContent
    /\ \A c \in Contents : content[c].exists
    /\ opsStarted = 0
    /\ user_followings \in SUBSET CandidateRows
    /\ nextFollowingId = 7
    /\ redis_following = {}
    /\ redis_info = {}
    /\ fw = [r \in Reqs |-> FwIdle]
    /\ lastFollow = NoResponse
    /\ followLog = [p \in Pairs |-> NoFollowLog]
    /\ matchResult = NoMatchResult
    /\ InitIngest
    /\ InitBatch
    /\ InitSyncIdle
    /\ InitPriorityIdle
    /\ InitRepoIdle
    /\ InitOrderIdle

\* CompanyMatcher.should_auto_summarize(content_id, user_id) is called
MatcherCall(c, u, storeFails) ==
    /\ \E res \in MatchResults(c, u, storeFails) :
          matchResult' = [set |-> TRUE, c |-> c, u |-> u, storeFails |-> storeFails,
                          result |-> res]
    /\ UNCHANGED <<contentVars, followVars, opsStarted, ingestVars, batchVars, syncVars, priorityVars, repoVars, orderVars>>

NextMatcher ==
    \E c \in Contents, u \in MatcherUsers, storeFails \in BOOLEAN : MatcherCall(c, u, storeFails)

SpecMatcher == InitMatcher /\ [][NextMatcher]_vars

\* the handlers and their steps, run by the workers of W
NextOver(W) ==
    \/ \E c \in Contents, a \in Articles : IngestRss(c, a.lang, a.kw)
    \/ \E c \in Contents : regenerate_summary(c)
    \/ \E w \in W, c \in Contents : StartTask(w, c)
    \/ \E w \in W : SumLoad(w)
    \/ \E w \in W : SumCallAI(w)
    \/ \E w \in W : SumCommit(w)
    \/ \E w \in W, c \in Contents, u \in Users, f \in BOOLEAN :
          process_new_content(w, c, u, f)
    \/ \E w \in W : AutoTag(w)
    \/ \E w \in W : MarkForOnDemand(w)
    \/ \E w \in W, c \in Contents, u \in Users : trigger_on_demand_summary(w, c, u)
    \/ \E w \in W : OnDemandTag(w)
    \/ \E c \in Contents, found \in SUBSET Companies : extract_companies_from_content(c, found)
    \/ \E found \in [Contents -> SUBSET Companies], failed \in SUBSET Contents :
          process_all_pending_content(found, failed)

\* one handler at a time: every request and task runs to its end before the
\* next one starts
Next == NextOver({"w1"})

Spec == Init /\ [][Next]_vars

\* the selective pipeline alone, on stored items: the request handlers of
\* api/v1/ai.py run process_new_content and trigger_on_demand_summary one
\* request at a time
InitPipeline == Init /\ \A c \in Contents : content[c].exists

NextPipeline ==
    \/ \E c \in Contents, u \in Users, f \in BOOLEAN : process_new_content("w1", c, u, f)
    \/ SumLoad("w1")
    \/ SumCallAI("w1")
    \/ SumCommit("w1")
    \/ AutoTag("w1")
    \/ MarkForOnDemand("w1")
    \/ \E c \in Contents, u \in Users : trigger_on_demand_summary("w1", c, u)
    \/ OnDemandTag("w1")

SpecPipeline == InitPipeline /\ [][NextPipeline]_vars

\* the same pipeline on items whose titles carry none of the keywords of
\* tasks.py:282-288: their tag lists stay below the cut at 15 tags
InitPipelinePlain == InitPipeline /\ \A c \in Contents : content[c].title_kw = {}

SpecPipelinePlain == InitPipelinePlain /\ [][NextPipeline]_vars

\* ingestion alone: ingest_rss calls that overlap, and a worker that takes
\* the summarize_task messages they queue
NextIngest ==
    \/ \E i \in Ingesters, c \in Contents, a \in Articles : IngestBegin(i, c, a.lang, a.kw)
    \/ \E i \in Ingesters : IngestFlush(i)
    \/ \E i \in Ingesters : IngestQueue(i)
    \/ \E i \in Ingesters : IngestCommit(i)
    \/ \E c \in Contents : StartTask("w1", c)
    \/ SumCallAI("w1")
    \/ SumCommit("w1")

SpecIngest == Init /\ [][NextIngest]_vars

\* batch runs alone, on a content table whose rows are pending or not and
\* matched or not, one request at a time
InitBatchSpec ==
    /\ content = [c \in Contents |-> NoContent]
    /\ mentions = [c \in Contents |-> {}]
    /\ queue = [c \in Contents |-> 0]
    /\ ai_cache = [c \in Contents |-> NoResult]
    /\ wk = [w \in Workers |-> Idle]
    /\ lastResult = NoReturn
    /\ providerCalls = [c \in Contents |-> 0]
    /\ resolved = [c \in Contents |-> {}]
    /\ requested = {}
    /\ pncLog = NoLog
    /\ opsStarted = 0
    /\ user_followings = {}
    /\ nextFollowingId = 2
    /\ redis_following = {}
    /\ redis_info = {}
    /\ fw = [r \in Reqs |-> FwIdle]
    /\ lastFollow = NoResponse
    /\ followLog = [p \in Pairs |-> NoFollowLog]
    /\ matchResult = NoMatchResult
    /\ InitIngest
    /\ items \in [Items -> [pending : BOOLEAN, matches : BOOLEAN]]
    /\ batch = BatchIdle
    /\ batchResult = NoBatchResult
    /\ InitSyncIdle
    /\ InitPriorityIdle
    /\ InitRepoIdle
    /\ InitOrderIdle

NextBatch ==
    \/ \E u \in Users, limit \in 1..MaxLimit : process_batch_content(u, limit)
    \/ \E fault \in Faults : BatchItem(fault)
    \/ BatchReturn

SpecBatch == InitBatchSpec /\ [][NextBatch]_vars

\* ------------------------------------------------------ priority content
\* the key of the sort on line 205, (max_priority, match_ratio): a is
\* greater than b as Python compares the tuples, the ratios being floats
KeyGreater(a, b) ==
    \/ a.max_priority > b.max_priority
    \/ /\ a.max_priority = b.max_priority
       /\ a.match_ratio.num * b.match_ratio.den > b.match_ratio.num * a.match_ratio.den

\* a get_priority_content that returns the rows as it fetched them
sort_by_priority_skipped(entries) == entries

\* list.sort(key=..., reverse=True), lines 204-207: stable, the greater key
\* first, entries of equal key in the order they had
RECURSIVE sort_by_priority(_)
sort_by_priority(entries) ==
    IF entries = <<>> THEN <<>>
    ELSE LET n == Len(entries)
             last == entries[n]
             front == sort_by_priority(SubSeq(entries, 1, n - 1))
             \* last goes behind every entry whose key is not smaller
             k == Cardinality({i \in DOMAIN front : ~KeyGreater(last, front[i])})
         IN SubSeq(front, 1, k) \o <<last>> \o SubSeq(front, k + 1, Len(front))

\* the max_priority values should_auto_summarize can give for a matched set
MaxPriorities(u, matched) ==
    {max_priority(info) : info \in MatchedCompanyInfos(u, matched)}

\* the contents the query of lines 181-185 can match: a mention of a
\* company the user follows with auto_summarize
Candidates(u) == {p \in Items : catalog[p] \cap get_following_companies(u) # {}}

\* .distinct().limit(limit).all() with no ORDER BY: up to limit of the
\* candidates, whichever the database returns, in whatever order
Fetches(u, limit) ==
    LET n == IF Cardinality(Candidates(u)) < limit THEN Cardinality(Candidates(u)) ELSE limit
    IN Arrangements(Candidates(u), n)

\* lines 188-201: the entry built for a fetched content from the result of
\* should_auto_summarize, with the max_priority that call came to
PriorityEntry(u, p, prio) ==
    LET matched == get_following_companies(u) \cap catalog[p]
    IN [content_id |-> p, matched_companies |-> matched, max_priority |-> prio,
        match_ratio |-> match_ratio(matched, catalog[p])]

\* CompanyMatcher.get_priority_content(user_id, limit); storeFails is "a
\* query of the method raised", which the except branch answers with []
get_priority_content(u, limit, storeFails) ==
    /\ IF storeFails \/ get_following_companies(u) = {}
       THEN priorityResult' = [set |-> TRUE, u |-> u, limit |-> limit,
                               storeFails |-> storeFails, fetched |-> <<>>, list |-> <<>>]
       ELSE \E fetched \in Fetches(u, limit) :
            \E prio \in [SeqToSet(fetched) -> 0..5] :
               /\ \A p \in SeqToSet(fetched) :
                     prio[p] \in MaxPriorities(u, get_following_companies(u) \cap catalog[p])
               /\ priorityResult' =
                     [set |-> TRUE, u |-> u, limit |-> limit, storeFails |-> FALSE,
                      fetched |-> fetched,
                      list |-> sort_by_priority(
                                 [k \in DOMAIN fetched |->
                                     PriorityEntry(u, fetched[k], prio[fetched[k]])])]
    /\ UNCHANGED catalog
    /\ UNCHANGED <<contentVars, opsStarted, followVars, matcherVars, ingestVars, batchVars,
                   syncVars, repoVars, orderVars>>

\* get_priority_content alone, over every table of the user's candidate
\* rows and every assignment of mentioned companies to the contents
InitPriority ==
    /\ InitContent
    /\ \A c \in Contents : ~content[c].exists
    /\ opsStarted = 0
    /\ user_followings \in SUBSET {f \in CandidateRows : f.user_id \in Users}
    /\ nextFollowingId = 7
    /\ redis_following = {}
    /\ redis_info = {}
    /\ fw = [r \in Reqs |-> FwIdle]
    /\ lastFollow = NoResponse
    /\ followLog = [p \in Pairs |-> NoFollowLog]
    /\ matchResult = NoMatchResult
    /\ InitIngest
    /\ InitBatch
    /\ InitSyncIdle
    /\ catalog \in [Items -> SUBSET Companies]
    /\ priorityResult = NoPriorityResult
    /\ InitRepoIdle
    /\ InitOrderIdle

\* one call per behaviour: the method writes nothing, a later call meets
\* the tables the first one met
NextPriority ==
    /\ ~priorityResult.set
    /\ \E u \in Users, limit \in 1..MaxLimit, storeFails \in BOOLEAN :
          get_priority_content(u, limit, storeFails)

SpecPriority == InitPriority /\ [][NextPriority]_vars

\* ---------------------------------------------------------- content repo
\* texts are sequences of characters
Lower(ch) == IF ch = "A" THEN "a" ELSE IF ch = "I" THEN "i" ELSE ch

LowerText(text) == [k \in DOMAIN text |-> Lower(text[k])]

\* pat occurs in text as a run of characters
Contains(text, pat) ==
    \E i \in 0..(Len(text) - Len(pat)) : SubSeq(text, i + 1, i + Len(pat)) = pat

\* column.ilike("%pat%"): the pattern occurs somewhere, case ignored
ilike(text, pat) == Contains(LowerText(text), LowerText(pat))

\* cast(Content.tags, String): the JSONB array as PostgreSQL prints it,
\* ["t1", "t2"]
RECURSIVE TagsBody(_)
TagsBody(tags) ==
    IF tags = <<>> THEN <<>>
    ELSE <<"\"">> \o Head(tags) \o <<"\"">> \o
         (IF Tail(tags) = <<>> THEN <<>> ELSE <<",", " ">> \o TagsBody(Tail(tags)))

TagsText(tags) == <<"[">> \o TagsBody(tags) \o <<"]">>

\* the rows in the order of the query, published_at descending
RepoOrder == <<"p1", "p2", "p3">>

\* list_contents lines 59-63: the tag filter, one ilike on the printed tag
\* list per requested tag that is not empty, joined by or_; no filter when
\* none is left
TagFilter(p, tags) ==
    LET tag_conds == SelectSeq(tags, LAMBDA t : t # <<>>)
    IN tag_conds = <<>> \/
       \E k \in DOMAIN tag_conds : ilike(TagsText(library[p].tags), tag_conds[k])

\* the row carries one of the requested tags, case ignored; an empty
\* request asks for nothing
CarriesRequestedTag(p, tags) ==
    LET tag_conds == SelectSeq(tags, LAMBDA t : t # <<>>)
    IN tag_conds = <<>> \/
       \E k \in DOMAIN tag_conds, j \in DOMAIN library[p].tags :
          LowerText(library[p].tags[j]) = LowerText(tag_conds[k])

\* list_contents lines 66-78: the keyword filter, ilike on the text
\* columns and on the printed JSON columns (author, url, raw_text,
\* summary_bullets and insight are empty in these rows)
KeywordFilter(p, keyword) ==
    keyword = <<>> \/ ilike(library[p].title, keyword) \/ ilike(TagsText(library[p].tags), keyword)

\* ContentRepo.list_contents(tags, limit, offset, keyword); None and the
\* empty list, None and the empty keyword are the empty sequence
list_contents(tags, limit, offset, keyword) ==
    /\ LET q == SelectSeq(RepoOrder, LAMBDA p : TagFilter(p, tags) /\ KeywordFilter(p, keyword))
           last == IF offset + limit < Len(q) THEN offset + limit ELSE Len(q)
       IN repoResult' = [NoRepoResult EXCEPT !.set = TRUE, !.op = "list_contents",
                                             !.tags = tags, !.keyword = keyword,
                                             !.limit = limit, !.offset = offset,
                                             !.outcome = "returned",
                                             !.rows = SubSeq(q, offset + 1, last)]
    /\ UNCHANGED library
    /\ UNCHANGED <<contentVars, opsStarted, followVars, matcherVars, ingestVars, batchVars,
                   syncVars, priorityVars, orderVars>>

\* lines 145-150: the tags of the rows read in the given order, each at its
\* first appearance (the keys of tag_counts in insertion order)
RECURSIVE FirstAppearances(_)
FirstAppearances(tagLists) ==
    IF tagLists = <<>> THEN <<>>
    ELSE LET front == FirstAppearances(SubSeq(tagLists, 1, Len(tagLists) - 1))
             fresh == SelectSeq(tagLists[Len(tagLists)], LAMBDA t : t \notin SeqToSet(front))
         IN front \o fresh

\* tag_counts[tag]: the occurrences of tag in the tag lists of all rows
TagCount(tag) ==
    LET occ(p) == Cardinality({k \in DOMAIN library[p].tags : library[p].tags[k] = tag})
    IN occ("p1") + occ("p2") + occ("p3")

\* sorted(tag_counts.items(), key=count, reverse=True) on line 153: stable,
\* the greater count first
RECURSIVE sorted_by_count(_)
sorted_by_count(tags) ==
    IF tags = <<>> THEN <<>>
    ELSE LET n == Len(tags)
             last == tags[n]
             front == sorted_by_count(SubSeq(tags, 1, n - 1))
             k == Cardinality({i \in DOMAIN front : TagCount(front[i]) >= TagCount(last)})
         IN SubSeq(front, 1, k) \o <<last>> \o SubSeq(front, k + 1, Len(front))

\* what the execute of the aggregation can meet: the statement runs, it
\* fails before it reaches the server (wrong statement type, no
\* connection handed out), or the server rejects it, which leaves the
\* session's transaction aborted until a rollback
SqlOutcomes == {"ok", "client_error", "server_error"}

\* ContentRepo.get_popular_tags(limit): the aggregation, ties in any
\* order; on an exception the fallback of lines 143-154 on the same
\* session, whose query raises in an aborted transaction
get_popular_tags(limit, sql) ==
    /\ \E order \in Arrangements(Items, Cardinality(Items)) :
          LET met == FirstAppearances([k \in DOMAIN order |-> library[order[k]].tags])
              ranked == sorted_by_count(met)
              last == IF limit < Len(ranked) THEN limit ELSE Len(ranked)
          IN repoResult' =
                IF sql = "server_error"
                THEN [NoRepoResult EXCEPT !.set = TRUE, !.op = "get_popular_tags",
                                          !.limit = limit, !.sql = sql, !.outcome = "raised"]
                ELSE [NoRepoResult EXCEPT !.set = TRUE, !.op = "get_popular_tags",
                                          !.limit = limit, !.sql = sql,
                                          !.outcome = "returned",
                                          !.rows = SubSeq(ranked, 1, last)]
    /\ UNCHANGED library
    /\ UNCHANGED <<contentVars, opsStarted, followVars, matcherVars, ingestVars, batchVars,
                   syncVars, priorityVars, orderVars>>

\* the tags and titles of the rows ContentRepo meets
RepoTagLists ==
    { <<>>, << <<"a", "i">> >>, << <<"a", "i", "r">> >>,
      << <<"a", "i">>, <<"d", "b">> >> }

RepoTitles == { <<"x">>, <<"d", "b">> }

\* the tag lists and keywords a caller asks for
RequestedTags == { <<>>, << <<>> >>, << <<"a", "i">> >>, << <<"A", "I">>, <<"d", "b">> >> }

RequestedKeywords == { <<>>, <<"d", "b">> }

\* ContentRepo alone, over every content table of three rows
InitRepo ==
    /\ InitContent
    /\ \A c \in Contents : ~content[c].exists
    /\ opsStarted = 0
    /\ InitFollowing
    /\ user_followings = {}
    /\ matchResult = NoMatchResult
    /\ InitIngest
    /\ InitBatch
    /\ InitSyncIdle
    /\ InitPriorityIdle
    /\ library \in [Items -> [tags : RepoTagLists, title : RepoTitles]]
    /\ repoResult = NoRepoResult
    /\ InitOrderIdle

\* one call per behaviour: the methods write nothing
NextRepo ==
    /\ ~repoResult.set
    /\ \/ \E tags \in RequestedTags, limit \in 1..MaxLimit, offset \in 0..2,
             keyword \in RequestedKeywords : list_contents(tags, limit, offset, keyword)
       \/ \E limit \in 1..MaxLimit, sql \in SqlOutcomes : get_popular_tags(limit, sql)

SpecRepo == InitRepo /\ [][NextRepo]_vars

\* ------------------------------------------- one item, two orders of calls
\* the content row of a run: an English article without title keywords
RunRow(tags) == [NewContent("en", {}) EXCEPT !.tags = tags]

\* summarize_task on the row of a run, start to commit: the cached result
\* if there is one, else the provider's, cached when its status is
\* success; the merged and cut tag list is stored
summarize_outcomes(tags, cache) ==
    LET results == IF cache.status # "none" THEN {[cache EXCEPT !.status = "cached"]}
                   ELSE ProviderOutcomes
    IN UNION { { [tags |-> SetToList(T),
                  cache |-> IF cache.status = "none" /\ InsertsCache(ai) THEN ai ELSE cache] :
                 T \in Truncations(ImprovedTagSet(RunRow(tags), ai)) } : ai \in results }

\* process_new_content on the row of a run, all queries succeeding:
\* _auto_summarize (summarize_task, then the tag swap on the row read
\* afterwards) for a match, _mark_for_on_demand otherwise
process_new_content_outcomes(tags, cache, matched) ==
    IF matched
    THEN { [tags |-> SwapPending(o.tags, <<"auto_summarized", "following_company">>),
            cache |-> o.cache] : o \in summarize_outcomes(tags, cache) }
    ELSE { [tags |-> SwapPending(tags, <<"on_demand_available">>), cache |-> cache] }

\* the next process_new_content call of run o, for the user whose turn it is
process_new_content_in_run(o) ==
    /\ Len(orderRuns.run[o].done) < Len(CallOrders[o])
    /\ LET r == orderRuns.run[o]
           u == CallOrders[o][Len(r.done) + 1]
           matched == get_following_companies(u) \cap orderRuns.mentions # {}
       IN \E out \in process_new_content_outcomes(r.tags, r.cache, matched) :
             orderRuns' = [orderRuns EXCEPT !.run[o] =
                              [tags |-> out.tags, cache |-> out.cache,
                               done |-> Append(r.done, [u |-> u, matched |-> matched])]]
    /\ UNCHANGED <<contentVars, opsStarted, followVars, matcherVars, ingestVars, batchVars,
                   syncVars, priorityVars, repoVars>>

\* two runs that start from the same tables and the same freshly ingested
\* item, over every table of candidate rows and every mention set
InitOrder ==
    /\ InitContent
    /\ \A c \in Contents : ~content[c].exists
    /\ opsStarted = 0
    /\ user_followings \in SUBSET CandidateRows
    /\ nextFollowingId = 7
    /\ redis_following = {}
    /\ redis_info = {}
    /\ fw = [r \in Reqs |-> FwIdle]
    /\ lastFollow = NoResponse
    /\ followLog = [p \in Pairs |-> NoFollowLog]
    /\ matchResult = NoMatchResult
    /\ InitIngest
    /\ InitBatch
    /\ InitSyncIdle
    /\ InitPriorityIdle
    /\ InitRepoIdle
    /\ \E m \in SUBSET Companies :
          orderRuns = [mentions |-> m,
                       run |-> [o \in DOMAIN CallOrders |->
                                  [tags |-> NewContent("en", {}).tags, cache |-> NoResult,
                                   done |-> <<>>]]]

NextOrder == \E o \in DOMAIN CallOrders : process_new_content_in_run(o)

SpecOrder == InitOrder /\ [][NextOrder]_vars

\* the mirror and its sync alone: the table and the cache as follows,
\* unfollows and expiries can have left them, then syncs and reads
SyncRows ==
    { Row(1, "u1", "A", 3, TRUE), Row(2, "u1", "B", 1, FALSE), Row(3, "u1", "A", 1, FALSE) }

InitSync ==
    /\ InitContent
    /\ \A c \in Contents : ~content[c].exists
    /\ opsStarted = 0
    /\ user_followings \in SUBSET SyncRows
    /\ nextFollowingId = 4
    /\ redis_following \in SUBSET Pairs
    /\ redis_info \in SUBSET Pairs
    /\ fw = [r \in Reqs |-> FwIdle]
    /\ lastFollow = NoResponse
    /\ followLog = [p \in Pairs |-> NoFollowLog]
    /\ matchResult = NoMatchResult
    /\ InitIngest
    /\ InitBatch
    /\ InitSyncIdle
    /\ InitPriorityIdle
    /\ InitRepoIdle
    /\ InitOrderIdle

NextSync ==
    \/ \E u \in Users : sync_following_cache(u)
    \/ SyncDelete
    \/ \E co \in Companies : SyncAdd(co)
    \/ SyncLoopEnds
    \/ SyncReturns
    \/ \E u \in Users, available \in BOOLEAN : ReadMirror(u, available)

SpecSync == InitSync /\ [][NextSync]_vars

\* a sync next to the cache-mirrored follow API: the mirror starts as a copy
\* of the table, one follow or unfollow request runs at a time
InitSyncRace ==
    /\ InitFollow
    /\ redis_following = {<<f.user_id, f.company_id>> : f \in user_followings}
    /\ redis_info = redis_following

NextSyncRace ==
    \/ \E u \in Users : sync_following_cache(u)
    \/ SyncDelete
    \/ \E co \in Companies : SyncAdd(co)
    \/ SyncLoopEnds
    \/ SyncReturns
    \/ \E u \in Users, co \in Companies, auto \in BOOLEAN : follow_company_fast("r1", u, co, auto)
    \/ FfInsert("r1")
    \/ FfCacheAdd("r1")
    \/ \E u \in Users, co \in Companies : unfollow_company_fast("r1", u, co)
    \/ UfDelete("r1")
    \/ UfCacheRemove("r1")

SpecSyncRace == InitSyncRace /\ [][NextSyncRace]_vars

\* the summarizing transitions on items whose titles carry all the
\* keywords of tasks.py:282-288, so that a provider answer with 8 tags
\* brings the merged list over the cut at 15 tags. Every item is stored
\* and mentions company A; one operation of the budget is left unused, the
\* number of 15-tag lists an item can hold growing fast with each run.
InitTags ==
    /\ InitContent
    /\ \A c \in Contents :
          /\ content[c].exists
          /\ content[c].title_kw = TitleKeywordTags
          /\ mentions[c] = {"A"}
    /\ opsStarted = 1
    /\ InitFollowing
    /\ matchResult = NoMatchResult
    /\ InitIngest
    /\ InitBatch
    /\ InitSyncIdle
    /\ InitPriorityIdle
    /\ InitRepoIdle
    /\ InitOrderIdle

NextTags ==
    \/ NextPipeline
    \/ \E c \in Contents : StartTask("w1", c)

SpecTags == InitTags /\ [][NextTags]_vars

\* the Celery side alone: ingestion and regeneration queue summarize_task
\* messages, and every worker of the pool takes and runs them concurrently
NextTasks ==
    \/ \E c \in Contents, a \in Articles : IngestRss(c, a.lang, a.kw)
    \/ \E c \in Contents : regenerate_summary(c)
    \/ \E w \in Workers, c \in Contents : StartTask(w, c)
    \/ \E w \in Workers : SumCallAI(w)
    \/ \E w \in Workers : SumCommit(w)

SpecTasks == Init /\ [][NextTasks]_vars

\* ---------------------------------------------------------------- claims
ProcessingTagsOf(row) == ProcessingTags \cap SeqToSet(row.tags)

\* C1: for one content hash, however many summarize_task executions run
\* concurrently or one after the other, the AI provider is invoked at most
\* once in total and all executions obtain the same
\* {summary_bullets, tags, insight}.
C1_SingleProviderCall ==
    \A c \in Contents : providerCalls[c] <= 1 /\ Cardinality(resolved[c]) <= 1

\* C2: in every reachable state the persisted tag list of each content item
\* contains exactly one of pending_summary, auto_summarized,
\* on_demand_available, on_demand_summarized.
C2_ExactlyOneProcessingTag ==
    \A c \in Contents :
        content[c].exists => Cardinality(ProcessingTagsOf(content[c])) = 1

\* C3: process_new_content called twice in a row for the same content and
\* user leaves the same persisted tag set as calling it once, and the second
\* call does not increase the number of AI-provider invocations.
C3_SecondCallChangesNothing ==
    pncLog.pair.set =>
        /\ pncLog.pair.tags2 = pncLog.pair.tags1
        /\ pncLog.pair.calls2 = pncLog.pair.calls1

\* the moves of the processing tag that the state diagram allows
AllowedMoves ==
    { <<{"pending_summary"}, {"auto_summarized"}>>,
      <<{"pending_summary"}, {"on_demand_available"}>>,
      <<{"on_demand_available"}, {"on_demand_summarized"}>> }

\* C5: the processing tag of a content item only ever changes along
\* pending_summary -> auto_summarized, pending_summary -> on_demand_available
\* or on_demand_available -> on_demand_summarized.
C5_OnlyAllowedMoves ==
    [][\A c \in Contents :
          (content[c].exists /\ ProcessingTagsOf(content'[c]) # ProcessingTagsOf(content[c]))
              => <<ProcessingTagsOf(content[c]), ProcessingTagsOf(content'[c])>> \in AllowedMoves]_vars

\* C8: when the matched set is empty, process_new_content returns status
\* on_demand_available, the item's persisted tags lose pending_summary and
\* gain on_demand_available, no AI-provider call is made and the summary
\* fields are left unchanged. Stated for calls whose store reads succeed.
C8_NoMatchMarksOnDemand ==
    [][\A w \in Workers :
          (wk[w].op = "mark" /\ wk[w].pc = "mark" /\ wk'[w].pc = "idle"
             /\ ~wk[w].storeFails
             /\ content[wk[w].c].exists)
          => LET c == wk[w].c
             IN /\ lastResult'.status = "on_demand_available"
                /\ "pending_summary" \notin SeqToSet(content'[c].tags)
                /\ "on_demand_available" \in SeqToSet(content'[c].tags)
                /\ providerCalls'[c] = providerCalls[c]
                /\ content'[c].summary_bullets = content[c].summary_bullets
                /\ content'[c].insight = content[c].insight]_vars

\* C9: when the matched set is non-empty, process_new_content returns status
\* auto_summarized only with the AI result resolved and persisted: the
\* item's persisted tags then contain auto_summarized and not
\* pending_summary, and summary_bullets and insight are populated.
C9_AutoSummarizedIsPersisted ==
    [][\A w \in Workers :
          (wk[w].op = "auto" /\ wk[w].pc = "auto_tag" /\ wk'[w].pc = "idle"
             /\ lastResult'.status = "auto_summarized")
          => LET c == wk[w].c
             IN /\ "auto_summarized" \in SeqToSet(content'[c].tags)
                /\ "pending_summary" \notin SeqToSet(content'[c].tags)
                /\ Truthy(content'[c].summary_bullets)
                /\ Truthy(content'[c].insight)]_vars

\* C10: the AI provider is invoked for a content item only if some user's
\* followed (auto_summarize) company is mentioned in it or a summary was
\* explicitly requested for it.
C10_ProviderOnlyWhenSelected ==
    \A c \in Contents :
        providerCalls[c] > 0 =>
            \/ c \in requested
            \/ \E u \in Users : should_auto_summarize(c, u, FALSE).should_summarize

\* C6: a follow called twice through the same entry point for the same
\* (user, company) with no remove in between, starting from a pair that is
\* not followed, returns success the first time and a declined result the
\* second time, and the following store then holds exactly one row for the
\* pair (for the cache service: the cache holds the pair); for every follow
\* entry point.
C6_SecondFollowDeclined ==
    \A p \in Pairs :
        (/\ followLog[p].fresh
         /\ Len(followLog[p].calls) = 2
         /\ followLog[p].calls[1].op = followLog[p].calls[2].op) =>
            /\ followLog[p].calls[1].status = "success"
            /\ followLog[p].calls[2].status = "declined"
            /\ IF followLog[p].calls[1].op = "add_following"
               THEN followLog[p].cached
               ELSE followLog[p].rows = 1

\* C7: in every reachable state, under any interleaving of concurrent follow
\* requests for the same (user_id, company_id) through any follow path, at
\* most one UserFollowing row exists for that pair.
C7_AtMostOneRowPerPair ==
    \A u \in Users, co \in Companies : Cardinality(RowsOf(u, co)) <= 1

\* the companies u follows with auto_summarize on that c mentions, read off
\* the two tables
FollowedAndMentioned(c, u) ==
    {co \in Companies :
        /\ \E f \in user_followings : f.user_id = u /\ f.company_id = co /\ f.auto_summarize
        /\ co \in mentions[c]}

\* C4 (as amended): whenever the store reads succeed, should_auto_summarize
\* returns should_summarize = true exactly when the companies the user
\* follows with auto_summarize enabled and the companies mentioned in the
\* content intersect, and matched_companies equals that intersection; when a
\* store read raises, it returns should_summarize = false and no matched
\* companies.
C4_MatchIsIntersection ==
    matchResult.set =>
        LET inter == FollowedAndMentioned(matchResult.c, matchResult.u)
        IN IF matchResult.storeFails
           THEN /\ ~matchResult.result.should_summarize
                /\ matchResult.result.matched_companies = {}
           ELSE /\ matchResult.result.should_summarize = (inter # {})
                /\ matchResult.result.matched_companies = inter

\* C4 witness: a call whose reads succeeded, for content that mentions two
\* companies of which the user follows only one with auto_summarize on,
\* while following the other one with auto_summarize off
C4_Witness ==
    /\ matchResult.set
    /\ ~matchResult.storeFails
    /\ matchResult.result.should_summarize
    /\ Cardinality(mentions[matchResult.c]) = 2
    /\ Cardinality(matchResult.result.matched_companies) = 1
    /\ \E f \in user_followings :
          /\ f.user_id = matchResult.u
          /\ ~f.auto_summarize
          /\ f.company_id \in mentions[matchResult.c] \ matchResult.result.matched_companies

\* C4 as stated: for every user_id and content_id, should_summarize is true
\* exactly when the two sets intersect, and matched_companies is the
\* intersection.
C4_AsStated ==
    matchResult.set =>
        /\ matchResult.result.should_summarize =
               (FollowedAndMentioned(matchResult.c, matchResult.u) # {})
        /\ matchResult.result.matched_companies =
               FollowedAndMentioned(matchResult.c, matchResult.u)

\* C17: for every user and content, should_auto_summarize returns match_ratio
\* with 0 <= match_ratio <= 1, equal to |matched| / |content companies| when
\* the content has at least one mention (matched being the matched set the
\* call returns), and exactly 0 when the content has no mentions, whatever
\* the following set is.
C17_MatchRatioInUnitInterval ==
    matchResult.set =>
        LET ratio == matchResult.result.match_ratio
            nMentions == Cardinality(mentions[matchResult.c])
            nMatched == Cardinality(matchResult.result.matched_companies)
        IN /\ ratio.den > 0
           /\ 0 <= ratio.num
           /\ ratio.num <= ratio.den
           /\ nMentions > 0 => ratio.num * nMentions = nMatched * ratio.den
           /\ nMentions = 0 => ratio.num = 0

\* C17 witness: a call that returns the ratio 1/2, one of the two mentioned
\* companies being followed
C17_Witness ==
    /\ matchResult.set
    /\ ~matchResult.storeFails
    /\ Cardinality(mentions[matchResult.c]) = 2
    /\ matchResult.result.match_ratio = [num |-> 1, den |-> 2]

\* the highest priority among the rows of u for company co
HighestPriority(u, co) ==
    LET ps == {f.priority : f \in {g \in user_followings : g.user_id = u /\ g.company_id = co}}
    IN IF ps = {} THEN 0 ELSE CHOOSE p \in ps : \A q \in ps : q <= p

\* C18: should_auto_summarize returns max_priority equal to the maximum of
\* this user's following priorities over the matched companies, and 0 when
\* the matched set is empty; matched_company_info holds one entry per matched
\* company carrying that company's priority for this user.
C18_MaxPriorityOverMatched ==
    matchResult.set =>
        LET res == matchResult.result
            u == matchResult.u
            best == {HighestPriority(u, co) : co \in res.matched_companies}
        IN /\ DOMAIN res.matched_company_info = res.matched_companies
           /\ \A co \in res.matched_companies :
                 res.matched_company_info[co] = HighestPriority(u, co)
           /\ res.max_priority =
                 IF best = {} THEN 0 ELSE CHOOSE p \in best : \A q \in best : q <= p

\* C19: if a store query inside should_auto_summarize raises, the call
\* raises nothing and returns should_summarize = false with an empty matched
\* set, match_ratio 0, max_priority 0 and the error text in reason, so that
\* process_new_content takes the no-AI (on-demand) branch.
C19_MatcherFailureTakesOnDemandBranch ==
    \A w \in Workers :
        (wk[w].op \in {"auto", "mark"} /\ wk[w].storeFails) =>
            /\ wk[w].match_result.should_summarize = FALSE
            /\ wk[w].match_result.matched_companies = {}
            /\ wk[w].match_result.matched_company_info = <<>>
            /\ wk[w].match_result.match_ratio.num = 0
            /\ wk[w].match_result.match_ratio.den > 0
            /\ wk[w].match_result.max_priority = 0
            /\ wk[w].match_result.reason.text = "error"
            /\ wk[w].op = "mark"
            /\ wk[w].pc = "mark"

\* C19 witness: the store read fails for a content that mentions a company
\* the user follows, and the pipeline stands in the on-demand branch
C19_Witness ==
    \E w \in Workers :
        /\ wk[w].storeFails
        /\ wk[w].pc = "mark"
        /\ FollowedAndMentioned(wk[w].c, wk[w].u) # {}

\* C11: trigger_on_demand_summary on a content item whose summary_bullets
\* and insight are both non-empty returns already_summarized with the stored
\* values, makes zero AI-provider calls, and leaves the item's tags and
\* summary fields unchanged.
C11_AlreadySummarizedIsLeftAlone ==
    [][\A w \in Workers, c \in Contents, u \in Users :
          (/\ trigger_on_demand_summary(w, c, u)
           /\ content[c].exists
           /\ Truthy(content[c].summary_bullets)
           /\ Truthy(content[c].insight))
          => /\ lastResult'.op = "trigger_on_demand_summary"
             /\ lastResult'.c = c
             /\ lastResult'.status = "already_summarized"
             /\ lastResult'.summary_bullets = content[c].summary_bullets
             /\ lastResult'.insight = content[c].insight
             /\ providerCalls' = providerCalls
             /\ wk'[w].pc = "idle"
             /\ content' = content
             /\ ai_cache' = ai_cache]_vars

\* C11 witness: a trigger has answered already_summarized for an item that
\* holds a summary
C11_Witness ==
    /\ lastResult.op = "trigger_on_demand_summary"
    /\ lastResult.status = "already_summarized"
    /\ Truthy(lastResult.summary_bullets)
    /\ Truthy(lastResult.insight)
    /\ content[lastResult.c].insight = lastResult.insight

\* the responses call_openai_summary has to turn into a fallback
FailingResponses == {"malformed", "raises", "no_client"}

\* C20: if the AI provider call raises (transport error, timeout, missing
\* client) or returns malformed JSON, call_openai_summary returns a fallback
\* result with status api_error or json_error that still carries
\* summary_bullets, tags and insight, and no exception propagates to the
\* caller of summarize_task: the task goes on to its commit with that result
\* and its caller receives a returned status.
C20_ProviderFailureGivesFallback ==
    \A w \in Workers :
        wk[w].resp \in FailingResponses =>
            /\ wk[w].ai.status = IF wk[w].resp = "malformed" THEN "json_error" ELSE "api_error"
            /\ Truthy(wk[w].ai.summary_bullets)
            /\ wk[w].ai.tags # <<>>
            /\ Truthy(wk[w].ai.insight)
            /\ wk[w].pc \in {"sum_commit", "auto_tag", "od_tag"}
            /\ wk[w].pc \in {"auto_tag", "od_tag"} => wk[w].task \in {"success", "error"}

\* C20 witness: summarize_task has returned to _auto_summarize after the
\* provider answered with malformed JSON, the fallback stored
C20_Witness ==
    \E w \in Workers :
        /\ wk[w].resp = "malformed"
        /\ wk[w].pc = "auto_tag"
        /\ wk[w].task = "success"
        /\ content[wk[w].c].insight = "json_fallback"

\* C12: trigger_on_demand_summary on an existing item tagged
\* on_demand_available that has no summary yet resolves the AI result
\* through the cache and leaves the item's persisted tags with
\* on_demand_summarized and without on_demand_available, with
\* summary_bullets and insight persisted.
C12_OnDemandSummarizedIsPersisted ==
    [][\A w \in Workers :
          (/\ wk[w].op = "ondemand" /\ wk[w].pc = "od_tag" /\ wk'[w].pc = "idle"
           /\ "on_demand_available" \in SeqToSet(wk[w].snap.tags)
           /\ content[wk[w].c].exists)
          => LET c == wk[w].c
             IN /\ "on_demand_summarized" \in SeqToSet(content'[c].tags)
                /\ "on_demand_available" \notin SeqToSet(content'[c].tags)
                /\ Truthy(content'[c].summary_bullets)
                /\ Truthy(content'[c].insight)
                /\ Payload(wk[w].ai) \in resolved'[c]]_vars

\* the tags a pending item may carry once a processing attempt has ended
SuccessorTags == ProcessingTags \ {"pending_summary"}

\* the attempt of worker w began on an item tagged pending_summary
BeganOnPending(w) ==
    IF wk[w].op = "mark"
    THEN "pending_summary" \in SeqToSet(content[wk[w].c].tags)
    ELSE "pending_summary" \in SeqToSet(wk[w].snap.tags)

\* C13: every processing attempt on an item tagged pending_summary
\* terminates with the item no longer tagged pending_summary and carrying
\* exactly one successor processing tag, also after a degraded fallback of
\* the AI provider or a failed summarize_task. Every attempt of the model
\* ends within four steps; the property is stated on the step that ends it,
\* for attempts whose store reads all succeed.
C13_AttemptEndsInSuccessorTag ==
    [][\A w \in Workers :
          (/\ wk[w].op \in {"task", "auto", "mark"}
           /\ wk[w].pc # "idle" /\ wk'[w].pc = "idle"
           /\ ~wk[w].storeFails
           /\ content[wk[w].c].exists
           /\ BeganOnPending(w))
          => LET after == ProcessingTagsOf(content'[wk[w].c])
             IN /\ "pending_summary" \notin after
                /\ Cardinality(after \cap SuccessorTags) = 1]_vars

\* C14: within one content item the persisted-summary write and the
\* processing-tag swap take effect together: no state shows the item with
\* the summary stored but without its summarized tag, or with the summarized
\* tag but without the summary.
C14_SummaryAndTagTogether ==
    \A c \in Contents :
        content[c].exists =>
            (Truthy(content[c].insight)
               <=> {"auto_summarized", "on_demand_summarized"} \cap SeqToSet(content[c].tags) # {})

\* C15: when two workers compute the AI result for the same
\* (content_hash, model_version) concurrently, exactly one AICache row is
\* written and it is never overwritten; the loser's result is discarded
\* without making its summarize_task fail, and the loser delivers the
\* winner's cached value to its caller and content item.
C15_LoserDeliversWinnersValue ==
    [][\A w \in Workers :
          (/\ wk[w].pc = "sum_commit" /\ wk'[w].pc # "sum_commit"
           /\ InsertsCache(wk[w].ai)
           /\ ai_cache[wk[w].c].status # "none")
          => LET c == wk[w].c
             IN /\ ai_cache'[c] = ai_cache[c]
                /\ lastResult'.w = w
                /\ lastResult'.status = "success"
                /\ content'[c].summary_bullets = ai_cache[c].summary_bullets
                /\ content'[c].insight = ai_cache[c].insight]_vars

\* C16: after any sequence of ingestions, including concurrent ones, at most
\* one Content row exists per content hash (the content table of the model
\* is keyed by hash, as uq_content_hash enforces); saving an item whose hash
\* is already stored inserts nothing, queues no summarize task for it, and
\* is reported as a duplicate rather than as an error that aborts the
\* ingestion.
C16_KnownHashIsReportedDuplicate ==
    [][\A i \in Ingesters, c \in Contents :
          (/\ content[c].exists
           /\ \/ \E a \in Articles : IngestBegin(i, c, a.lang, a.kw)
              \/ IngestFlush(i) /\ ing[i].c = c)
          => /\ content' = content
             /\ queue' = queue
             /\ ingResult'.i = i
             /\ ingResult'.returned = "stats"
             /\ ingResult'.duplicates = 1
             /\ ingResult'.saved = 0
             /\ ingResult'.queued_tasks = 0]_vars

\* C21: in process_batch_content a failure while processing one item (an
\* error result or a raised exception) is counted as an error and does not
\* prevent any of the remaining selected items from being processed.
C21_ItemFailureIsIsolated ==
    batchResult.set =>
        /\ batchResult.attempted = batchResult.selected
        /\ batchResult.errors = batchResult.failed

\* C22: process_batch_content processes at most limit items, all of them
\* tagged pending_summary when selected, and in its result every processed
\* item is counted in exactly one of auto_summarized, on_demand_available,
\* errors, whatever status the single-item transition returned.
C22_BatchCountsAddUp ==
    /\ batch.pc = "loop" =>
          /\ Len(batch.contents) <= batch.limit
          /\ batch.i = 1 => \A k \in DOMAIN batch.contents : items[batch.contents[k]].pending
    /\ batchResult.set =>
          /\ batchResult.processed <= batchResult.limit
          /\ batchResult.processed =
                batchResult.auto_summarized + batchResult.on_demand_available
                  + batchResult.errors

\* C23: while sync_from_db runs for a user, every read of that user's
\* mirrored following set returns either the complete set the mirror held
\* when the sync began or the complete set of the sync's snapshot, never a
\* partly cleared or partly repopulated one.
C23_SyncIsAtomicForReaders ==
    (lastRead.set /\ lastRead.available /\ lastRead.syncing) =>
        lastRead.companies \in {lastRead.before, lastRead.data}

\* C24: once sync_from_db(user, snapshot) has completed, the user's following
\* set and the per-company info keys hold exactly the companies of the
\* snapshot, nothing left over from before; a second sync of the same
\* snapshot leaves the same mirror.
C24_SyncOverwritesMirror ==
    (sync.pc = "idle" /\ sync.u # NoId) =>
        /\ Mirror(sync.u) = sync.data
        /\ MirrorInfo(sync.u) = sync.data

\* C27: a read taken while Redis does not answer returns the empty set from
\* get_following_companies and False from is_following for every company,
\* whatever the mirror holds; the read returns instead of raising.
C27_UnavailableCacheReadsEmpty ==
    (lastRead.set /\ ~lastRead.available) =>
        /\ lastRead.companies = {}
        /\ lastRead.is_following = {}

C27_Witness ==
    /\ lastRead.set
    /\ ~lastRead.available
    /\ Mirror(lastRead.u) # {}
    /\ lastRead.companies = {}

\* the companies u follows with auto_summarize set on some row
AutoSummarized(u) ==
    {co \in Companies : \E f \in user_followings :
        f.user_id = u /\ f.company_id = co /\ f.auto_summarize}

\* C28: get_following_companies returns exactly the companies followed with
\* auto_summarize = true, from the table and from the mirror alike: after a
\* completed sync a company whose rows all have auto_summarize = false is
\* not in the set read from the mirror.
C28_OnlyAutoSummarizeFollowings ==
    \A u \in Users :
        /\ get_following_companies(u) = AutoSummarized(u)
        /\ (sync.pc = "idle" /\ sync.u = u) =>
               cache_get_following_companies(u, TRUE) \subseteq AutoSummarized(u)

\* the companies of the user's rows in the table
Followed(u) == {f.company_id : f \in {g \in user_followings : g.user_id = u}}

\* C25: when a follow or unfollow through the cache-mirrored API has run
\* next to a bulk cache sync for the same user and both have completed, the
\* mirrored following set equals the companies of the user's rows: no
\* follow is lost, no unfollowed company is back in the mirror.
C25_MirrorEqualsRowsAfterSyncRace ==
    (sync.pc = "idle" /\ \A r \in Reqs : fw[r].pc = "idle") =>
        \A u \in Users : Mirror(u) = Followed(u)

\* C26: whether a follow or unfollow request is accepted depends on the
\* user's rows in the table alone, never on what the mirror holds. With a
\* mirror in step with the table a follow is accepted exactly when the
\* pair has no row and an unfollow exactly when it has one, so the same
\* must hold for every request of the cache-mirrored API whatever the
\* mirror holds (emptied by its TTL, not synced, or stale).
C26_FollowOutcomeIgnoresMirror ==
    [][\A r \in Reqs, u \in Users, co \in Companies :
          /\ (\E auto \in BOOLEAN : follow_company_fast(r, u, co, auto)) =>
                 ((fw'[r].pc = "ff_insert") <=> (RowsOf(u, co) = {}))
          /\ unfollow_company_fast(r, u, co) =>
                 ((fw'[r].pc = "uf_delete") <=> (RowsOf(u, co) # {}))]_vars

\* the statuses that report a content item as handled
SuccessStatuses == {"on_demand_available", "auto_summarized", "summarized", "already_summarized"}

\* C29: process_new_content and trigger_on_demand_summary called for a
\* content id that has no row return a declined or not-found outcome,
\* never one of the success statuses, call no AI provider and leave the
\* stored state as it was.
C29_MissingContentIsDeclined ==
    [][\A w \in Workers :
          /\ (MarkForOnDemand(w) /\ ~content[wk[w].c].exists) =>
                 /\ lastResult'.status \notin SuccessStatuses
                 /\ <<content, mentions, ai_cache, providerCalls>>' =
                       <<content, mentions, ai_cache, providerCalls>>
          /\ \A c \in Contents, u \in Users :
                (trigger_on_demand_summary(w, c, u) /\ ~content[c].exists) =>
                    /\ lastResult'.status \notin SuccessStatuses
                    /\ <<content, mentions, ai_cache, providerCalls>>' =
                          <<content, mentions, ai_cache, providerCalls>>]_vars

\* C30: after every summarizing transition (summarize_task alone, the
\* auto-summarize path, the on-demand path) the stored tag list of the
\* content item has no duplicates and at most 15 entries.
C30_TagsDeduplicatedAndCapped ==
    \A c \in Contents :
        content[c].exists =>
            /\ Len(content[c].tags) <= MaxTags
            /\ Cardinality(SeqToSet(content[c].tags)) = Len(content[c].tags)

C30_Witness ==
    \E c \in Contents :
        /\ content[c].summary_bullets = "ai2"
        /\ Len(content[c].tags) = MaxTags
        /\ \E t \in SeqToSet(AITagNames) \cup TitleKeywordTags : t \notin SeqToSet(content[c].tags)

\* C32: the reason should_auto_summarize returns tells three cases apart
\* by three different texts: a match (with the number of matched
\* companies and the number of content companies), a content from which no
\* company was extracted, and a content with companies none of which the
\* user follows.
C32_ReasonTellsThreeCases ==
    (matchResult.set /\ ~matchResult.storeFails) =>
        LET content_companies == get_content_companies(matchResult.c)
            matched == get_following_companies(matchResult.u) \cap content_companies
            reason == matchResult.result.reason
        IN /\ matched # {} =>
                reason = Reason("match", <<Cardinality(matched), Cardinality(content_companies)>>)
           /\ content_companies = {} => reason.text = "no_companies"
           /\ (content_companies # {} /\ matched = {}) => reason.text = "not_followed"

C32_Witness ==
    /\ matchResult.set
    /\ ~matchResult.storeFails
    /\ get_content_companies(matchResult.c) = {}
    /\ get_following_companies(matchResult.u) # {}
    /\ matchResult.result.reason.text = "no_companies"

\* C31: the list get_priority_content returns is ordered by max_priority
\* descending and, among entries of equal max_priority, by match_ratio
\* descending.
C31_PriorityListIsSorted ==
    priorityResult.set =>
        \A i, j \in DOMAIN priorityResult.list :
            i < j => ~KeyGreater(priorityResult.list[j], priorityResult.list[i])

C31_Witness ==
    /\ priorityResult.set
    /\ Len(priorityResult.list) >= 2
    /\ priorityResult.list[1].content_id # priorityResult.fetched[1]
    /\ \E i, j \in DOMAIN priorityResult.list :
          /\ priorityResult.list[i].max_priority = priorityResult.list[j].max_priority
          /\ KeyGreater(priorityResult.list[i], priorityResult.list[j])

\* C40: when the user has more matching contents than limit,
\* get_priority_content returns the limit highest-ranked of them under
\* (max_priority desc, match_ratio desc): no matching content left out
\* ranks above a returned one, whichever priority its lookup gives.
C40_TopRankedAreReturned ==
    (priorityResult.set /\ ~priorityResult.storeFails) =>
        LET u == priorityResult.u
            returned == {priorityResult.list[k].content_id : k \in DOMAIN priorityResult.list}
        IN /\ Len(priorityResult.list) =
                 IF Cardinality(Candidates(u)) < priorityResult.limit
                 THEN Cardinality(Candidates(u)) ELSE priorityResult.limit
           /\ \A p \in Candidates(u) \ returned, k \in DOMAIN priorityResult.list :
                 \E prio \in MaxPriorities(u, get_following_companies(u) \cap catalog[p]) :
                    ~KeyGreater(PriorityEntry(u, p, prio), priorityResult.list[k])

\* C33: list_contents with a tags filter returns only rows that carry at
\* least one of the requested tags; with a keyword as well, every
\* returned row passes both filters; the rows returned are at most limit
\* and start at offset among the rows that pass.
C33_TagFilterReturnsTaggedRows ==
    (repoResult.set /\ repoResult.op = "list_contents") =>
        LET passing == SelectSeq(RepoOrder, LAMBDA p :
                          /\ CarriesRequestedTag(p, repoResult.tags)
                          /\ KeywordFilter(p, repoResult.keyword))
        IN /\ Len(repoResult.rows) <= repoResult.limit
           /\ \A k \in DOMAIN repoResult.rows :
                 /\ repoResult.offset + k <= Len(passing)
                 /\ repoResult.rows[k] = passing[repoResult.offset + k]

\* C34: when the SQL aggregation fails, get_popular_tags counts the tags
\* over all rows itself and returns at most limit different tags, a more
\* used tag never behind a less used one, and no tag left out that is
\* used more often than a returned one.
C34_FallbackRanksTags ==
    (repoResult.set /\ repoResult.op = "get_popular_tags" /\ repoResult.sql # "ok") =>
        LET rows == repoResult.rows
            used == UNION {SeqToSet(library[p].tags) : p \in Items}
        IN /\ repoResult.outcome = "returned"
           /\ Len(rows) <= repoResult.limit
           /\ \A i, j \in DOMAIN rows : i < j =>
                 rows[i] # rows[j] /\ TagCount(rows[i]) >= TagCount(rows[j])
           /\ \A t \in used \ SeqToSet(rows), k \in DOMAIN rows :
                 TagCount(t) <= TagCount(rows[k])

\* C35: for two users and one content item, the processing tag stored
\* after process_new_content for the first user and then for the second
\* is the one stored after the two calls in the opposite order, also when
\* the item matches the followings of one user only.
C35_CallOrderDoesNotMatter ==
    (\A o \in DOMAIN CallOrders : Len(orderRuns.run[o].done) = Len(CallOrders[o])) =>
        ProcessingTagsOf(orderRuns.run.u1_first) = ProcessingTagsOf(orderRuns.run.u2_first)

\* C36: the tags and summary that summarize_task commits for an item (AI
\* tags, ai_summarized/processed, language and topic tags) are still present
\* after the pipeline commits its tag swap in _auto_summarize,
\* process_batch_content or trigger_on_demand_summary: the pipeline never
\* writes back a tag list it read before summarize_task ran.
C36_TaskResultSurvivesTagSwap ==
    [][\A w \in Workers :
          (/\ AutoTag(w) \/ OnDemandTag(w)
           /\ wk[w].task = "success")
          => LET c == wk[w].c
             IN /\ SeqToSet(content[c].tags) \subseteq SeqToSet(content'[c].tags)
                /\ content'[c].summary_bullets = content[c].summary_bullets
                /\ content'[c].insight = content[c].insight]_vars

\* C36 witness: _auto_summarize has finished after a summarize_task that
\* stored a provider answer, and the item carries the task's tags and summary
C36_Witness ==
    /\ lastResult.op = "process_new_content"
    /\ lastResult.status = "auto_summarized"
    /\ lastResult.task = "success"
    /\ wk[lastResult.w].pc = "idle"
    /\ {"ai_summarized", "processed", "english"} \subseteq SeqToSet(content[lastResult.c].tags)
    /\ Truthy(content[lastResult.c].insight)

\* C37: every summarize task queued by ingest_rss refers to a content row
\* that is committed and visible when the task runs: no queued task executes
\* before the insert of its item commits, and no task stays queued for an
\* item whose insert was rolled back.
C37_QueuedTaskFindsItsRow ==
    [][\A w \in Workers, c \in Contents :
          StartTask(w, c) => content[c].exists]_vars

\* the summaries call_openai_summary hands out when the provider failed
FallbackSummaries ==
    {call_openai_summary(resp).summary_bullets : resp \in FailingResponses}

\* C38: trigger_on_demand_summary reports already_summarized only for items
\* whose stored summary came from a successful or cached AI result; an item
\* that holds only a degraded fallback summary (api_error or json_error) is
\* resolved again by an on-demand request.
C38_FallbackIsResolvedAgain ==
    [][\A w \in Workers, c \in Contents, u \in Users :
          (/\ trigger_on_demand_summary(w, c, u)
           /\ content[c].exists
           /\ content[c].summary_bullets \in FallbackSummaries)
          => /\ lastResult'.status # "already_summarized"
             /\ wk'[w].pc \in {"sum_ai", "sum_commit"}]_vars

\* C39: an AICache row is written only for an AI result with status
\* success: after any sequence of summarize_task runs, no cache entry holds
\* a fallback result (api_error or json_error), and a cached result is
\* returned to later callers with the same summary_bullets, tags and insight
\* that were stored.
C39_CacheHoldsOnlySuccesses ==
    /\ \A c \in Contents :
          ai_cache[c].status # "none" =>
              /\ ai_cache[c] \in {o \in ProviderOutcomes : o.status = "success"}
              /\ ai_cache[c].summary_bullets \notin FallbackSummaries
    /\ \A w \in Workers :
          wk[w].ai.status = "cached" =>
              /\ ai_cache[wk[w].c].status = "success"
              /\ Payload(wk[w].ai) = Payload(ai_cache[wk[w].c])

\* C39 witness: a summarize_task run for an item that an earlier run
\* summarized is handed the cached result of that run
C39_Witness ==
    \E w \in Workers :
        /\ wk[w].ai.status = "cached"
        /\ wk[w].pc = "sum_commit"
        /\ "ai_summarized" \in SeqToSet(wk[w].snap.tags)
        /\ Payload(wk[w].ai) = Payload(ai_cache[wk[w].c])
        /\ Truthy(wk[w].ai.insight)

====
